---- MODULE Spec2Model ----
(***************************************************************************)
(* Model of src/transcription_app.py: the TranscriptionThread pipeline     *)
(* driver (capture callback, frame queue, sample buffer, voice activity    *)
(* detection, segment extraction, inference call, dedup filter) and the    *)
(* TranscriptionApp handlers that start and stop it.                       *)
(*                                                                         *)
(* Audio is a float32 sample array.  It is represented run-length encoded: *)
(* a sequence of runs [a |-> amplitude, n |-> count], amplitude an integer *)
(* number of quanta, the quantum a power of two and |amplitude| < 2^24.    *)
(* abs, max and comparisons are exact on such values.  Sums and means are  *)
(* float32 operations: every addition and every division is rounded to 24  *)
(* significant bits, nearest, ties to even, in the order numpy adds        *)
(* (pairwise summation).  The rounding does not depend on the quantum, so  *)
(* it is carried out on the integers; sums stay below 2^31 quanta.  Text   *)
(* is a sequence of Unicode code points.                                   *)
(***************************************************************************)
EXTENDS Integers, Sequences, FiniteSets, TLC

\* ---------------------------------------------------------------- constants
SAMPLE_RATE == 16000
CHUNK_SIZE == 32768
MIN_PHRASE_LENGTH == 10
window_size == 1024
DefaultBufferSeconds == 10
MinBufferSeconds == 5
MaxBufferSeconds == 30
None == -1

\* ------------------------------------------------------------------- bounds
MaxFrames == 5
MaxStarts == 2
MaxDedup == 3
MaxVadSeconds == 8
MaxSizeCalls == 2

\* ------------------------------------------------------------ integer tools
Min(a, b) == IF a < b THEN a ELSE b
Max(a, b) == IF a > b THEN a ELSE b
Abs(x) == IF x < 0 THEN -x ELSE x

\* ------------------------------------------------- run-length encoded arrays
RECURSIVE SLen(_)
SLen(r) == IF r = <<>> THEN 0 ELSE Head(r).n + SLen(Tail(r))

\* the exact sum of |x| over the first k samples of r, an integer; the sum
\* float32 arithmetic gives is AbsPairwiseSum below
RECURSIVE AbsSumTo(_, _)
AbsSumTo(r, k) ==
    IF k <= 0 \/ r = <<>> THEN 0
    ELSE IF Head(r).n >= k THEN Abs(Head(r).a) * k
    ELSE Abs(Head(r).a) * Head(r).n + AbsSumTo(Tail(r), k - Head(r).n)

\* r1 followed by r2 (np.concatenate); equal adjacent runs are merged so that
\* one array has one representation
Cat(r1, r2) ==
    IF r1 = <<>> THEN r2
    ELSE IF r2 = <<>> THEN r1
    ELSE IF r1[Len(r1)].a = Head(r2).a
         THEN SubSeq(r1, 1, Len(r1) - 1)
              \o <<[a |-> Head(r2).a, n |-> r1[Len(r1)].n + Head(r2).n]>>
              \o Tail(r2)
         ELSE r1 \o r2

\* r[:k]
RECURSIVE Take(_, _)
Take(r, k) ==
    IF k <= 0 \/ r = <<>> THEN <<>>
    ELSE IF Head(r).n >= k THEN <<[a |-> Head(r).a, n |-> k]>>
    ELSE <<Head(r)>> \o Take(Tail(r), k - Head(r).n)

\* r[k:]
RECURSIVE Drop(_, _)
Drop(r, k) ==
    IF r = <<>> THEN <<>>
    ELSE IF k <= 0 THEN r
    ELSE IF Head(r).n > k THEN <<[a |-> Head(r).a, n |-> Head(r).n - k]>> \o Tail(r)
    ELSE Drop(Tail(r), k - Head(r).n)

\* r[s:e]
Slice(r, s, e) == Take(Drop(r, s), e - s)

\* np.max(np.abs(r)) of a non-empty array
RECURSIVE PeakAbs(_)
PeakAbs(r) == IF r = <<>> THEN 0 ELSE Max(Abs(Head(r).a), PeakAbs(Tail(r)))

\* r[k], 0 <= k < len(r)
RECURSIVE At(_, _)
At(r, k) == IF k < Head(r).n THEN Head(r).a ELSE At(Tail(r), k - Head(r).n)

\* n samples of value a
Run(a, n) == IF n <= 0 THEN <<>> ELSE <<[a |-> a, n |-> n]>>

\* lines 115-117: speech_segment / max_val when max_val > 0.  The quotient
\* array is kept as its numerators over the one denominator: sample i is
\* num[i] / den
normalize(speech_segment) ==
    LET max_val == PeakAbs(speech_segment)
    IN  [num |-> speech_segment, den |-> IF max_val > 0 THEN max_val ELSE 1]

\* zeros put in front of the array
np_pad_before(x, k) == [num |-> Cat(Run(0, k), x.num), den |-> x.den]

\* line 120: np.pad(x, (0, k), mode='constant')
np_pad(x, k) == [num |-> Cat(x.num, Run(0, k)), den |-> x.den]

\* ------------------------------------------------ find_speech_boundaries
\* window start indices: range(0, len(audio_data) - window_size, window_size)
NumWindows(n) ==
    IF n - window_size <= 0 THEN 0
    ELSE (n - window_size + window_size - 1) \div window_size

\* ---- float32
\* A float32 has 24 significant bits.  A value that is a whole number of
\* quanta is written as that integer, any other as significand and exponent.
Significand == 16777216
PW_BLOCKSIZE == 128

Only(S) == CHOOSE v \in S : TRUE

\* the number of bits by which k >= 0 exceeds the significand
RECURSIVE Exponent(_)
Exponent(k) == IF k < Significand THEN 0 ELSE 1 + Exponent(k \div 2)

\* round to nearest, ties to the even significand: q the bits kept, r the
\* bits dropped out of s, sticky when something nonzero lies below them
RoundEven(q, r, s, sticky) ==
    IF 2 * r > s \/ (2 * r = s /\ (sticky \/ q % 2 = 1)) THEN q + 1 ELSE q

\* the integer k >= 0 as a float32: the result of one float32 addition whose
\* exact sum is k
float32(k) ==
    IF k < Significand THEN k
    ELSE Only({RoundEven(k \div s, k % s, s, FALSE) * s : s \in {2 ^ Exponent(k)}})

\* res += a[i] for i = from, from + stride, ... below to
RECURSIVE Accumulate(_, _, _, _, _)
Accumulate(a, res, from, to, stride) ==
    IF from >= to THEN res
    ELSE Accumulate(a, float32(res + a[from]), from + stride, to, stride)

\* numpy's FLOAT_pairwise_sum over a[lo], ..., a[lo + n - 1], the loop behind
\* np.add.reduce and so np.mean on a float32 array: fewer than 8 elements
\* are added in order; up to PW_BLOCKSIZE in 8 accumulators that are added
\* in pairs, the rest after them in order; more are split in two parts, the
\* first a multiple of 8 long
RECURSIVE FLOAT_pairwise_sum(_, _, _)
FLOAT_pairwise_sum(a, lo, n) ==
    IF n < 8 THEN Accumulate(a, 0, lo, lo + n, 1)
    ELSE IF n <= PW_BLOCKSIZE
    THEN Accumulate(a,
             float32(float32(float32(Accumulate(a, a[lo], lo + 8, lo + n - (n % 8), 8)
                                     + Accumulate(a, a[lo + 1], lo + 9, lo + n - (n % 8), 8))
                             + float32(Accumulate(a, a[lo + 2], lo + 10, lo + n - (n % 8), 8)
                                       + Accumulate(a, a[lo + 3], lo + 11, lo + n - (n % 8), 8)))
                     + float32(float32(Accumulate(a, a[lo + 4], lo + 12, lo + n - (n % 8), 8)
                                       + Accumulate(a, a[lo + 5], lo + 13, lo + n - (n % 8), 8))
                               + float32(Accumulate(a, a[lo + 6], lo + 14, lo + n - (n % 8), 8)
                                         + Accumulate(a, a[lo + 7], lo + 15, lo + n - (n % 8), 8)))),
             lo + n - (n % 8), lo + n, 1)
    ELSE float32(FLOAT_pairwise_sum(a, lo, (n \div 2) - ((n \div 2) % 8))
                 + FLOAT_pairwise_sum(a, lo + (n \div 2) - ((n \div 2) % 8),
                                      n - ((n \div 2) - ((n \div 2) % 8))))

\* FLOAT_pairwise_sum over |r[lo]|, ..., |r[lo + n - 1]| of a run-length
\* encoded array.  The terms are whole non-negative numbers of quanta: when
\* they add up to 2^24 at most, so does every partial sum in every order, no
\* addition rounds and the result is the exact sum.
RECURSIVE AbsPairwiseSum(_, _, _)
AbsPairwiseSum(r, lo, n) ==
    Only({IF exact <= Significand THEN exact
          ELSE IF n > PW_BLOCKSIZE
          THEN float32(AbsPairwiseSum(r, lo, (n \div 2) - ((n \div 2) % 8))
                       + AbsPairwiseSum(r, lo + (n \div 2) - ((n \div 2) % 8),
                                        n - ((n \div 2) - ((n \div 2) % 8))))
          ELSE Only({FLOAT_pairwise_sum(a, 0, n) :
                       a \in {[j \in 0 .. (n - 1) |-> Abs(At(r, lo + j))]}}) :
          exact \in {AbsSumTo(r, lo + n) - AbsSumTo(r, lo)}})

\* not a number: what np.mean gives for an empty array
NaN == [nan |-> TRUE, m |-> 0, e |-> 0]

\* t / n with the remainder r carried down to 24 significant bits: m is
\* floor(t / n * 2^-e)
RECURSIVE Quotient24(_, _, _, _)
Quotient24(m, r, n, e) ==
    IF m >= Significand \div 2 THEN [m |-> m, r |-> r, e |-> e]
    ELSE IF 2 * r >= n THEN Quotient24(2 * m + 1, 2 * r - n, n, e - 1)
    ELSE Quotient24(2 * m, 2 * r, n, e - 1)

\* the float32 quotient of the sum t >= 0 by the count n, as m * 2^e quanta
\* (np.mean divides the sum by the number of elements)
float32_divide(t, n) ==
    IF n = 0 THEN NaN
    ELSE IF t = 0 THEN [nan |-> FALSE, m |-> 0, e |-> 0]
    ELSE IF t \div n >= Significand
    THEN Only({[nan |-> FALSE,
                m |-> RoundEven((t \div n) \div s, (t \div n) % s, s, t % n > 0),
                e |-> Exponent(t \div n)] : s \in {2 ^ Exponent(t \div n)}})
    ELSE Only({[nan |-> FALSE, m |-> RoundEven(d.m, d.r, n, FALSE), e |-> d.e] :
                 d \in {Quotient24(t \div n, t % n, n, 0)}})

\* f * 0.5
Half(f) == [nan |-> f.nan, m |-> f.m, e |-> f.e - 1]

\* the whole number of quanta in a float32 f >= 0
Floor(f) ==
    IF f.e >= 0 THEN f.m * (2 ^ f.e)
    ELSE IF -f.e > 24 THEN 0
    ELSE f.m \div (2 ^ (-f.e))

\* x > f for a whole number x >= 0 of quanta and a float32 f >= 0: x is
\* above f when it is above the whole quanta in f; every comparison with
\* nan is False
GreaterThan(x, f) == ~f.nan /\ x > Floor(f)

\* ---- lines 58-64
\* energy[i] * window_size: np.mean over the window is the float32 sum of
\* |x| over audio_data[i*W : i*W + W] divided by W, a power of two
WindowSum(audio_data, i) ==
    AbsPairwiseSum(audio_data, i * window_size, window_size)

\* energy over the first N windows (scaled by window_size), on 0 .. N-1
EnergyOver(audio_data, N) ==
    [i \in 0 .. (N - 1) |-> WindowSum(audio_data, i)]

\* lines 58-61
Energy(audio_data) == EnergyOver(audio_data, NumWindows(SLen(audio_data)))

\* the float32 sum of the energies that np.mean(energy) divides (scaled by
\* window_size)
EnergySum(energy) ==
    FLOAT_pairwise_sum(energy, 0, Cardinality(DOMAIN energy))

\* the same over the first N windows of audio_data.  The windows are
\* consecutive from 0: when the samples under them add up to 2^24 at most,
\* no sum over a window and no sum of energies rounds, and the result is
\* the exact sum over the first N * window_size samples.
EnergySumOver(audio_data, N) ==
    Only({IF exact <= Significand THEN exact
          ELSE Only({EnergySum(energy) : energy \in {EnergyOver(audio_data, N)}}) :
          exact \in {AbsSumTo(audio_data, N * window_size)}})

EnergyTotal(audio_data) == EnergySumOver(audio_data, NumWindows(SLen(audio_data)))

\* line 63: np.mean(energy) * 0.5 (scaled by window_size)
Threshold(energy) ==
    Half(float32_divide(EnergySum(energy), Cardinality(DOMAIN energy)))

ThresholdOver(audio_data, N) ==
    Half(float32_divide(EnergySumOver(audio_data, N), N))

\* line 64 over the first N windows: energy > threshold, as the set of
\* indices where it is True
MaskOver(audio_data, N) ==
    Only({IF threshold.nan THEN {}
          ELSE Only({{i \in 0 .. (N - 1) : WindowSum(audio_data, i) > quanta} :
                       quanta \in {Floor(threshold)}}) :
          threshold \in {ThresholdOver(audio_data, N)}})

\* speech_regions of lines 58-64
SpeechMask(audio_data) == MaskOver(audio_data, NumWindows(SLen(audio_data)))

SetMin(S) == CHOOSE x \in S : \A y \in S : x <= y
SetMax(S) == CHOOSE x \in S : \A y \in S : x >= y

\* off by one in the end index
find_speech_boundaries_late_end(audio_data) ==
    LET mask == SpeechMask(audio_data)
    IN  IF mask = {} THEN <<0, SLen(audio_data)>>
        ELSE <<Max(0, SetMin(mask) * window_size), (SetMax(mask) + 2) * window_size>>

\* nothing reported when no window is speech
find_speech_boundaries_fail_silent(audio_data) ==
    LET mask == SpeechMask(audio_data)
    IN  IF mask = {} THEN <<0, 0>>
        ELSE <<Max(0, SetMin(mask) * window_size),
               Min(SLen(audio_data), (SetMax(mask) + 1) * window_size)>>

\* the region ends with the first run of speech windows
find_speech_boundaries_first_run(audio_data) ==
    LET mask == SpeechMask(audio_data)
    IN  IF mask = {} THEN <<0, SLen(audio_data)>>
        ELSE LET first == SetMin(mask)
                 last == SetMax({i \in mask : \A j \in first .. i : j \in mask})
             IN  <<Max(0, first * window_size),
                   Min(SLen(audio_data), (last + 1) * window_size)>>

\* lines 55-72
find_speech_boundaries(audio_data) ==
    LET mask == SpeechMask(audio_data)
    IN  IF mask = {} THEN <<0, SLen(audio_data)>>
        ELSE <<Max(0, SetMin(mask) * window_size),
               Min(SLen(audio_data), (SetMax(mask) + 1) * window_size)>>

\* ------------------------------------------------------------------- text
\* A text is a str: a sequence of Unicode code points.  Whitespace is every
\* code point str.isspace() holds for.  Lower is str.lower() on every text.
Whitespace ==
    {9, 10, 11, 12, 13, 28, 29, 30, 31, 32, 133, 160, 5760} \cup (8192 .. 8202)
        \cup {8232, 8233, 8239, 8287, 12288}

\* str.lower() (line 129), with the tables of the interpreter's Unicode
\* database (14.0.0).
\* The simple lower-case mappings as <<first, last, step, delta>>: every code
\* point first, first + step, .. last has the lower-case form itself + delta
LowerRules ==
    <<
       <<65, 90, 1, 32>>, <<192, 214, 1, 32>>, <<216, 222, 1, 32>>, <<256, 302, 2, 1>>,
       <<306, 310, 2, 1>>, <<313, 327, 2, 1>>, <<330, 374, 2, 1>>, <<376, 376, 1, -121>>,
       <<377, 381, 2, 1>>, <<385, 385, 1, 210>>, <<386, 388, 2, 1>>, <<390, 390, 1, 206>>,
       <<391, 391, 1, 1>>, <<393, 394, 1, 205>>, <<395, 395, 1, 1>>, <<398, 398, 1, 79>>,
       <<399, 399, 1, 202>>, <<400, 400, 1, 203>>, <<401, 401, 1, 1>>, <<403, 403, 1, 205>>,
       <<404, 404, 1, 207>>, <<406, 406, 1, 211>>, <<407, 407, 1, 209>>, <<408, 408, 1, 1>>,
       <<412, 412, 1, 211>>, <<413, 413, 1, 213>>, <<415, 415, 1, 214>>, <<416, 420, 2, 1>>,
       <<422, 422, 1, 218>>, <<423, 423, 1, 1>>, <<425, 425, 1, 218>>, <<428, 428, 1, 1>>,
       <<430, 430, 1, 218>>, <<431, 431, 1, 1>>, <<433, 434, 1, 217>>, <<435, 437, 2, 1>>,
       <<439, 439, 1, 219>>, <<440, 440, 1, 1>>, <<444, 444, 1, 1>>, <<452, 452, 1, 2>>,
       <<453, 453, 1, 1>>, <<455, 455, 1, 2>>, <<456, 456, 1, 1>>, <<458, 458, 1, 2>>,
       <<459, 475, 2, 1>>, <<478, 494, 2, 1>>, <<497, 497, 1, 2>>, <<498, 500, 2, 1>>,
       <<502, 502, 1, -97>>, <<503, 503, 1, -56>>, <<504, 542, 2, 1>>, <<544, 544, 1, -130>>,
       <<546, 562, 2, 1>>, <<570, 570, 1, 10795>>, <<571, 571, 1, 1>>, <<573, 573, 1, -163>>,
       <<574, 574, 1, 10792>>, <<577, 577, 1, 1>>, <<579, 579, 1, -195>>, <<580, 580, 1, 69>>,
       <<581, 581, 1, 71>>, <<582, 590, 2, 1>>, <<880, 882, 2, 1>>, <<886, 886, 1, 1>>,
       <<895, 895, 1, 116>>, <<902, 902, 1, 38>>, <<904, 906, 1, 37>>, <<908, 908, 1, 64>>,
       <<910, 911, 1, 63>>, <<913, 929, 1, 32>>, <<931, 931, 1, 32>>, <<932, 939, 1, 32>>,
       <<975, 975, 1, 8>>, <<984, 1006, 2, 1>>, <<1012, 1012, 1, -60>>, <<1015, 1015, 1, 1>>,
       <<1017, 1017, 1, -7>>, <<1018, 1018, 1, 1>>, <<1021, 1023, 1, -130>>, <<1024, 1039, 1, 80>>,
       <<1040, 1071, 1, 32>>, <<1120, 1152, 2, 1>>, <<1162, 1214, 2, 1>>, <<1216, 1216, 1, 15>>,
       <<1217, 1229, 2, 1>>, <<1232, 1326, 2, 1>>, <<1329, 1366, 1, 48>>, <<4256, 4293, 1, 7264>>,
       <<4295, 4295, 1, 7264>>, <<4301, 4301, 1, 7264>>, <<5024, 5103, 1, 38864>>, <<5104, 5109, 1, 8>>,
       <<7312, 7354, 1, -3008>>, <<7357, 7359, 1, -3008>>, <<7680, 7828, 2, 1>>, <<7838, 7838, 1, -7615>>,
       <<7840, 7934, 2, 1>>, <<7944, 7951, 1, -8>>, <<7960, 7965, 1, -8>>, <<7976, 7983, 1, -8>>,
       <<7992, 7999, 1, -8>>, <<8008, 8013, 1, -8>>, <<8025, 8031, 2, -8>>, <<8040, 8047, 1, -8>>,
       <<8072, 8079, 1, -8>>, <<8088, 8095, 1, -8>>, <<8104, 8111, 1, -8>>, <<8120, 8121, 1, -8>>,
       <<8122, 8123, 1, -74>>, <<8124, 8124, 1, -9>>, <<8136, 8139, 1, -86>>, <<8140, 8140, 1, -9>>,
       <<8152, 8153, 1, -8>>, <<8154, 8155, 1, -100>>, <<8168, 8169, 1, -8>>, <<8170, 8171, 1, -112>>,
       <<8172, 8172, 1, -7>>, <<8184, 8185, 1, -128>>, <<8186, 8187, 1, -126>>, <<8188, 8188, 1, -9>>,
       <<8486, 8486, 1, -7517>>, <<8490, 8490, 1, -8383>>, <<8491, 8491, 1, -8262>>, <<8498, 8498, 1, 28>>,
       <<8544, 8559, 1, 16>>, <<8579, 8579, 1, 1>>, <<9398, 9423, 1, 26>>, <<11264, 11311, 1, 48>>,
       <<11360, 11360, 1, 1>>, <<11362, 11362, 1, -10743>>, <<11363, 11363, 1, -3814>>, <<11364, 11364, 1, -10727>>,
       <<11367, 11371, 2, 1>>, <<11373, 11373, 1, -10780>>, <<11374, 11374, 1, -10749>>, <<11375, 11375, 1, -10783>>,
       <<11376, 11376, 1, -10782>>, <<11378, 11378, 1, 1>>, <<11381, 11381, 1, 1>>, <<11390, 11391, 1, -10815>>,
       <<11392, 11490, 2, 1>>, <<11499, 11501, 2, 1>>, <<11506, 11506, 1, 1>>, <<42560, 42604, 2, 1>>,
       <<42624, 42650, 2, 1>>, <<42786, 42798, 2, 1>>, <<42802, 42862, 2, 1>>, <<42873, 42875, 2, 1>>,
       <<42877, 42877, 1, -35332>>, <<42878, 42886, 2, 1>>, <<42891, 42891, 1, 1>>, <<42893, 42893, 1, -42280>>,
       <<42896, 42898, 2, 1>>, <<42902, 42920, 2, 1>>, <<42922, 42922, 1, -42308>>, <<42923, 42923, 1, -42319>>,
       <<42924, 42924, 1, -42315>>, <<42925, 42925, 1, -42305>>, <<42926, 42926, 1, -42308>>, <<42928, 42928, 1, -42258>>,
       <<42929, 42929, 1, -42282>>, <<42930, 42930, 1, -42261>>, <<42931, 42931, 1, 928>>, <<42932, 42946, 2, 1>>,
       <<42948, 42948, 1, -48>>, <<42949, 42949, 1, -42307>>, <<42950, 42950, 1, -35384>>, <<42951, 42953, 2, 1>>,
       <<42960, 42960, 1, 1>>, <<42966, 42968, 2, 1>>, <<42997, 42997, 1, 1>>, <<65313, 65338, 1, 32>>,
       <<66560, 66599, 1, 40>>, <<66736, 66771, 1, 40>>, <<66928, 66938, 1, 39>>, <<66940, 66954, 1, 39>>,
       <<66956, 66962, 1, 39>>, <<66964, 66965, 1, 39>>, <<68736, 68786, 1, 64>>, <<71840, 71871, 1, 32>>,
       <<93760, 93791, 1, 32>>, <<125184, 125217, 1, 34>>
    >>

\* code points that are cased and not case-ignorable, as <<first, last>>
CasedRanges ==
    <<
       <<65, 90>>, <<97, 122>>, <<170, 170>>, <<181, 181>>, <<186, 186>>, <<192, 214>>,
       <<216, 246>>, <<248, 442>>, <<444, 447>>, <<452, 659>>, <<661, 687>>, <<880, 883>>,
       <<886, 887>>, <<891, 893>>, <<895, 895>>, <<902, 902>>, <<904, 906>>, <<908, 908>>,
       <<910, 929>>, <<931, 1013>>, <<1015, 1153>>, <<1162, 1327>>, <<1329, 1366>>, <<1376, 1416>>,
       <<4256, 4293>>, <<4295, 4295>>, <<4301, 4301>>, <<4304, 4346>>, <<4349, 4351>>, <<5024, 5109>>,
       <<5112, 5117>>, <<7296, 7304>>, <<7312, 7354>>, <<7357, 7359>>, <<7424, 7467>>, <<7531, 7543>>,
       <<7545, 7578>>, <<7680, 7957>>, <<7960, 7965>>, <<7968, 8005>>, <<8008, 8013>>, <<8016, 8023>>,
       <<8025, 8025>>, <<8027, 8027>>, <<8029, 8029>>, <<8031, 8061>>, <<8064, 8116>>, <<8118, 8124>>,
       <<8126, 8126>>, <<8130, 8132>>, <<8134, 8140>>, <<8144, 8147>>, <<8150, 8155>>, <<8160, 8172>>,
       <<8178, 8180>>, <<8182, 8188>>, <<8450, 8450>>, <<8455, 8455>>, <<8458, 8467>>, <<8469, 8469>>,
       <<8473, 8477>>, <<8484, 8484>>, <<8486, 8486>>, <<8488, 8488>>, <<8490, 8493>>, <<8495, 8500>>,
       <<8505, 8505>>, <<8508, 8511>>, <<8517, 8521>>, <<8526, 8526>>, <<8544, 8575>>, <<8579, 8580>>,
       <<9398, 9449>>, <<11264, 11387>>, <<11390, 11492>>, <<11499, 11502>>, <<11506, 11507>>, <<11520, 11557>>,
       <<11559, 11559>>, <<11565, 11565>>, <<42560, 42605>>, <<42624, 42651>>, <<42786, 42863>>, <<42865, 42887>>,
       <<42891, 42894>>, <<42896, 42954>>, <<42960, 42961>>, <<42963, 42963>>, <<42965, 42969>>, <<42997, 42998>>,
       <<43002, 43002>>, <<43824, 43866>>, <<43872, 43880>>, <<43888, 43967>>, <<64256, 64262>>, <<64275, 64279>>,
       <<65313, 65338>>, <<65345, 65370>>, <<66560, 66639>>, <<66736, 66771>>, <<66776, 66811>>, <<66928, 66938>>,
       <<66940, 66954>>, <<66956, 66962>>, <<66964, 66965>>, <<66967, 66977>>, <<66979, 66993>>, <<66995, 67001>>,
       <<67003, 67004>>, <<68736, 68786>>, <<68800, 68850>>, <<71840, 71903>>, <<93760, 93823>>, <<119808, 119892>>,
       <<119894, 119964>>, <<119966, 119967>>, <<119970, 119970>>, <<119973, 119974>>, <<119977, 119980>>, <<119982, 119993>>,
       <<119995, 119995>>, <<119997, 120003>>, <<120005, 120069>>, <<120071, 120074>>, <<120077, 120084>>, <<120086, 120092>>,
       <<120094, 120121>>, <<120123, 120126>>, <<120128, 120132>>, <<120134, 120134>>, <<120138, 120144>>, <<120146, 120485>>,
       <<120488, 120512>>, <<120514, 120538>>, <<120540, 120570>>, <<120572, 120596>>, <<120598, 120628>>, <<120630, 120654>>,
       <<120656, 120686>>, <<120688, 120712>>, <<120714, 120744>>, <<120746, 120770>>, <<120772, 120779>>, <<122624, 122633>>,
       <<122635, 122654>>, <<125184, 125251>>, <<127280, 127305>>, <<127312, 127337>>, <<127344, 127369>>
    >>

\* case-ignorable code points, as <<first, last>>
CaseIgnorableRanges ==
    <<
       <<39, 39>>, <<46, 46>>, <<58, 58>>, <<94, 94>>, <<96, 96>>, <<168, 168>>,
       <<173, 173>>, <<175, 175>>, <<180, 180>>, <<183, 184>>, <<688, 879>>, <<884, 885>>,
       <<890, 890>>, <<900, 901>>, <<903, 903>>, <<1155, 1161>>, <<1369, 1369>>, <<1375, 1375>>,
       <<1425, 1469>>, <<1471, 1471>>, <<1473, 1474>>, <<1476, 1477>>, <<1479, 1479>>, <<1524, 1524>>,
       <<1536, 1541>>, <<1552, 1562>>, <<1564, 1564>>, <<1600, 1600>>, <<1611, 1631>>, <<1648, 1648>>,
       <<1750, 1757>>, <<1759, 1768>>, <<1770, 1773>>, <<1807, 1807>>, <<1809, 1809>>, <<1840, 1866>>,
       <<1958, 1968>>, <<2027, 2037>>, <<2042, 2042>>, <<2045, 2045>>, <<2070, 2093>>, <<2137, 2139>>,
       <<2184, 2184>>, <<2192, 2193>>, <<2200, 2207>>, <<2249, 2306>>, <<2362, 2362>>, <<2364, 2364>>,
       <<2369, 2376>>, <<2381, 2381>>, <<2385, 2391>>, <<2402, 2403>>, <<2417, 2417>>, <<2433, 2433>>,
       <<2492, 2492>>, <<2497, 2500>>, <<2509, 2509>>, <<2530, 2531>>, <<2558, 2558>>, <<2561, 2562>>,
       <<2620, 2620>>, <<2625, 2626>>, <<2631, 2632>>, <<2635, 2637>>, <<2641, 2641>>, <<2672, 2673>>,
       <<2677, 2677>>, <<2689, 2690>>, <<2748, 2748>>, <<2753, 2757>>, <<2759, 2760>>, <<2765, 2765>>,
       <<2786, 2787>>, <<2810, 2815>>, <<2817, 2817>>, <<2876, 2876>>, <<2879, 2879>>, <<2881, 2884>>,
       <<2893, 2893>>, <<2901, 2902>>, <<2914, 2915>>, <<2946, 2946>>, <<3008, 3008>>, <<3021, 3021>>,
       <<3072, 3072>>, <<3076, 3076>>, <<3132, 3132>>, <<3134, 3136>>, <<3142, 3144>>, <<3146, 3149>>,
       <<3157, 3158>>, <<3170, 3171>>, <<3201, 3201>>, <<3260, 3260>>, <<3263, 3263>>, <<3270, 3270>>,
       <<3276, 3277>>, <<3298, 3299>>, <<3328, 3329>>, <<3387, 3388>>, <<3393, 3396>>, <<3405, 3405>>,
       <<3426, 3427>>, <<3457, 3457>>, <<3530, 3530>>, <<3538, 3540>>, <<3542, 3542>>, <<3633, 3633>>,
       <<3636, 3642>>, <<3654, 3662>>, <<3761, 3761>>, <<3764, 3772>>, <<3782, 3782>>, <<3784, 3789>>,
       <<3864, 3865>>, <<3893, 3893>>, <<3895, 3895>>, <<3897, 3897>>, <<3953, 3966>>, <<3968, 3972>>,
       <<3974, 3975>>, <<3981, 3991>>, <<3993, 4028>>, <<4038, 4038>>, <<4141, 4144>>, <<4146, 4151>>,
       <<4153, 4154>>, <<4157, 4158>>, <<4184, 4185>>, <<4190, 4192>>, <<4209, 4212>>, <<4226, 4226>>,
       <<4229, 4230>>, <<4237, 4237>>, <<4253, 4253>>, <<4348, 4348>>, <<4957, 4959>>, <<5906, 5908>>,
       <<5938, 5939>>, <<5970, 5971>>, <<6002, 6003>>, <<6068, 6069>>, <<6071, 6077>>, <<6086, 6086>>,
       <<6089, 6099>>, <<6103, 6103>>, <<6109, 6109>>, <<6155, 6159>>, <<6211, 6211>>, <<6277, 6278>>,
       <<6313, 6313>>, <<6432, 6434>>, <<6439, 6440>>, <<6450, 6450>>, <<6457, 6459>>, <<6679, 6680>>,
       <<6683, 6683>>, <<6742, 6742>>, <<6744, 6750>>, <<6752, 6752>>, <<6754, 6754>>, <<6757, 6764>>,
       <<6771, 6780>>, <<6783, 6783>>, <<6823, 6823>>, <<6832, 6862>>, <<6912, 6915>>, <<6964, 6964>>,
       <<6966, 6970>>, <<6972, 6972>>, <<6978, 6978>>, <<7019, 7027>>, <<7040, 7041>>, <<7074, 7077>>,
       <<7080, 7081>>, <<7083, 7085>>, <<7142, 7142>>, <<7144, 7145>>, <<7149, 7149>>, <<7151, 7153>>,
       <<7212, 7219>>, <<7222, 7223>>, <<7288, 7293>>, <<7376, 7378>>, <<7380, 7392>>, <<7394, 7400>>,
       <<7405, 7405>>, <<7412, 7412>>, <<7416, 7417>>, <<7468, 7530>>, <<7544, 7544>>, <<7579, 7679>>,
       <<8125, 8125>>, <<8127, 8129>>, <<8141, 8143>>, <<8157, 8159>>, <<8173, 8175>>, <<8189, 8190>>,
       <<8203, 8207>>, <<8216, 8217>>, <<8228, 8228>>, <<8231, 8231>>, <<8234, 8238>>, <<8288, 8292>>,
       <<8294, 8303>>, <<8305, 8305>>, <<8319, 8319>>, <<8336, 8348>>, <<8400, 8432>>, <<11388, 11389>>,
       <<11503, 11505>>, <<11631, 11631>>, <<11647, 11647>>, <<11744, 11775>>, <<11823, 11823>>, <<12293, 12293>>,
       <<12330, 12333>>, <<12337, 12341>>, <<12347, 12347>>, <<12441, 12446>>, <<12540, 12542>>, <<40981, 40981>>,
       <<42232, 42237>>, <<42508, 42508>>, <<42607, 42610>>, <<42612, 42621>>, <<42623, 42623>>, <<42652, 42655>>,
       <<42736, 42737>>, <<42752, 42785>>, <<42864, 42864>>, <<42888, 42890>>, <<42994, 42996>>, <<43000, 43001>>,
       <<43010, 43010>>, <<43014, 43014>>, <<43019, 43019>>, <<43045, 43046>>, <<43052, 43052>>, <<43204, 43205>>,
       <<43232, 43249>>, <<43263, 43263>>, <<43302, 43309>>, <<43335, 43345>>, <<43392, 43394>>, <<43443, 43443>>,
       <<43446, 43449>>, <<43452, 43453>>, <<43471, 43471>>, <<43493, 43494>>, <<43561, 43566>>, <<43569, 43570>>,
       <<43573, 43574>>, <<43587, 43587>>, <<43596, 43596>>, <<43632, 43632>>, <<43644, 43644>>, <<43696, 43696>>,
       <<43698, 43700>>, <<43703, 43704>>, <<43710, 43711>>, <<43713, 43713>>, <<43741, 43741>>, <<43756, 43757>>,
       <<43763, 43764>>, <<43766, 43766>>, <<43867, 43871>>, <<43881, 43883>>, <<44005, 44005>>, <<44008, 44008>>,
       <<44013, 44013>>, <<64286, 64286>>, <<64434, 64450>>, <<65024, 65039>>, <<65043, 65043>>, <<65056, 65071>>,
       <<65106, 65106>>, <<65109, 65109>>, <<65279, 65279>>, <<65287, 65287>>, <<65294, 65294>>, <<65306, 65306>>,
       <<65342, 65342>>, <<65344, 65344>>, <<65392, 65392>>, <<65438, 65439>>, <<65507, 65507>>, <<65529, 65531>>,
       <<66045, 66045>>, <<66272, 66272>>, <<66422, 66426>>, <<67456, 67461>>, <<67463, 67504>>, <<67506, 67514>>,
       <<68097, 68099>>, <<68101, 68102>>, <<68108, 68111>>, <<68152, 68154>>, <<68159, 68159>>, <<68325, 68326>>,
       <<68900, 68903>>, <<69291, 69292>>, <<69446, 69456>>, <<69506, 69509>>, <<69633, 69633>>, <<69688, 69702>>,
       <<69744, 69744>>, <<69747, 69748>>, <<69759, 69761>>, <<69811, 69814>>, <<69817, 69818>>, <<69821, 69821>>,
       <<69826, 69826>>, <<69837, 69837>>, <<69888, 69890>>, <<69927, 69931>>, <<69933, 69940>>, <<70003, 70003>>,
       <<70016, 70017>>, <<70070, 70078>>, <<70089, 70092>>, <<70095, 70095>>, <<70191, 70193>>, <<70196, 70196>>,
       <<70198, 70199>>, <<70206, 70206>>, <<70367, 70367>>, <<70371, 70378>>, <<70400, 70401>>, <<70459, 70460>>,
       <<70464, 70464>>, <<70502, 70508>>, <<70512, 70516>>, <<70712, 70719>>, <<70722, 70724>>, <<70726, 70726>>,
       <<70750, 70750>>, <<70835, 70840>>, <<70842, 70842>>, <<70847, 70848>>, <<70850, 70851>>, <<71090, 71093>>,
       <<71100, 71101>>, <<71103, 71104>>, <<71132, 71133>>, <<71219, 71226>>, <<71229, 71229>>, <<71231, 71232>>,
       <<71339, 71339>>, <<71341, 71341>>, <<71344, 71349>>, <<71351, 71351>>, <<71453, 71455>>, <<71458, 71461>>,
       <<71463, 71467>>, <<71727, 71735>>, <<71737, 71738>>, <<71995, 71996>>, <<71998, 71998>>, <<72003, 72003>>,
       <<72148, 72151>>, <<72154, 72155>>, <<72160, 72160>>, <<72193, 72202>>, <<72243, 72248>>, <<72251, 72254>>,
       <<72263, 72263>>, <<72273, 72278>>, <<72281, 72283>>, <<72330, 72342>>, <<72344, 72345>>, <<72752, 72758>>,
       <<72760, 72765>>, <<72767, 72767>>, <<72850, 72871>>, <<72874, 72880>>, <<72882, 72883>>, <<72885, 72886>>,
       <<73009, 73014>>, <<73018, 73018>>, <<73020, 73021>>, <<73023, 73029>>, <<73031, 73031>>, <<73104, 73105>>,
       <<73109, 73109>>, <<73111, 73111>>, <<73459, 73460>>, <<78896, 78904>>, <<92912, 92916>>, <<92976, 92982>>,
       <<92992, 92995>>, <<94031, 94031>>, <<94095, 94111>>, <<94176, 94177>>, <<94179, 94180>>, <<110576, 110579>>,
       <<110581, 110587>>, <<110589, 110590>>, <<113821, 113822>>, <<113824, 113827>>, <<118528, 118573>>, <<118576, 118598>>,
       <<119143, 119145>>, <<119155, 119170>>, <<119173, 119179>>, <<119210, 119213>>, <<119362, 119364>>, <<121344, 121398>>,
       <<121403, 121452>>, <<121461, 121461>>, <<121476, 121476>>, <<121499, 121503>>, <<121505, 121519>>, <<122880, 122886>>,
       <<122888, 122904>>, <<122907, 122913>>, <<122915, 122916>>, <<122918, 122922>>, <<123184, 123197>>, <<123566, 123566>>,
       <<123628, 123631>>, <<125136, 125142>>, <<125252, 125259>>, <<127995, 127999>>, <<917505, 917505>>, <<917536, 917631>>,
       <<917760, 917999>>
    >>

\* the tables are in ascending order: the last entry of table that starts at
\* or before c, 0 when there is none
RECURSIVE LastAtMost(_, _, _, _)
LastAtMost(table, c, lo, hi) ==
    IF lo > hi THEN lo - 1
    ELSE IF table[(lo + hi) \div 2][1] <= c
         THEN LastAtMost(table, c, (lo + hi) \div 2 + 1, hi)
         ELSE LastAtMost(table, c, lo, (lo + hi) \div 2 - 1)

InRanges(c, ranges) ==
    \E k \in {LastAtMost(ranges, c, 1, Len(ranges))} : k >= 1 /\ c <= ranges[k][2]
Cased(c) == InRanges(c, CasedRanges)
CaseIgnorable(c) == InRanges(c, CaseIgnorableRanges)

\* c under rule k of LowerRules, the last rule that starts at or before c
LowerByRule(c, k) ==
    IF /\ k >= 1
       /\ c <= LowerRules[k][2]
       /\ (c - LowerRules[k][1]) % LowerRules[k][3] = 0
    THEN <<c + LowerRules[k][4]>>
    ELSE <<c>>

\* the lower-case form of one code point whatever is around it: one code
\* point, or two for U+0130
LowerChar(c) ==
    IF c < 128 THEN (IF c \in 65 .. 90 THEN <<c + 32>> ELSE <<c>>)
    ELSE IF c = 304 THEN <<105, 775>>
    ELSE LowerByRule(c, LastAtMost(LowerRules, c, 1, Len(LowerRules)))

\* the nearest position before j + 1 (after j - 1) that holds a code point
\* that is not case-ignorable; 0 (Len(s) + 1) when there is none
RECURSIVE PrevNotIgnorable(_, _)
PrevNotIgnorable(s, j) ==
    IF j < 1 THEN 0
    ELSE IF CaseIgnorable(s[j]) THEN PrevNotIgnorable(s, j - 1) ELSE j
RECURSIVE NextNotIgnorable(_, _)
NextNotIgnorable(s, j) ==
    IF j > Len(s) THEN Len(s) + 1
    ELSE IF CaseIgnorable(s[j]) THEN NextNotIgnorable(s, j + 1) ELSE j

\* U+03A3 at position i of s: final sigma U+03C2 when the nearest code point
\* before it that is not case-ignorable is cased and the nearest one after it
\* that is not case-ignorable, if any, is not cased; U+03C3 otherwise
handle_capital_sigma(s, i) ==
    IF \E b \in {PrevNotIgnorable(s, i - 1)}, a \in {NextNotIgnorable(s, i + 1)} :
           /\ b >= 1
           /\ Cased(s[b])
           /\ (a > Len(s) \/ ~Cased(s[a]))
    THEN 962 ELSE 963

RECURSIVE LowerFrom(_, _)
LowerFrom(s, i) ==
    IF i > Len(s) THEN <<>>
    ELSE (IF s[i] = 931 THEN <<handle_capital_sigma(s, i)>> ELSE LowerChar(s[i]))
         \o LowerFrom(s, i + 1)

Lower(s) == LowerFrom(s, 1)

\* str.strip()
RECURSIVE LStrip(_)
LStrip(s) == IF s # <<>> /\ Head(s) \in Whitespace THEN LStrip(Tail(s)) ELSE s
RECURSIVE RStrip(_)
RStrip(s) ==
    IF s # <<>> /\ s[Len(s)] \in Whitespace THEN RStrip(SubSeq(s, 1, Len(s) - 1)) ELSE s
Strip(s) == RStrip(LStrip(s))

\* a in b  (Python substring test)
IsSubstring(a, b) ==
    \E i \in 0 .. (Len(b) - Len(a)) : SubSeq(b, i + 1, i + Len(a)) = a

\* lines 127-129: the candidate is emitted
DedupAccepts_buggy(transcript, last_transcription) ==
    /\ transcript # <<>>
    /\ Len(transcript) >= MIN_PHRASE_LENGTH
    /\ ~IsSubstring(Lower(transcript), Lower(last_transcription))

\* the containment test the other way round
DedupAccepts_reversed(transcript, last_transcription) ==
    /\ transcript # <<>>
    /\ Len(transcript) > MIN_PHRASE_LENGTH
    /\ ~IsSubstring(Lower(last_transcription), Lower(transcript))

DedupAccepts(transcript, last_transcription) ==
    /\ transcript # <<>>
    /\ Len(transcript) > MIN_PHRASE_LENGTH
    /\ ~IsSubstring(Lower(transcript), Lower(last_transcription))

\* no upper limit
set_buffer_size_unlimited(seconds) == Max(MinBufferSeconds, seconds)

\* line 46: max(5, min(30, seconds))
set_buffer_size(seconds) == Max(MinBufferSeconds, Min(MaxBufferSeconds, seconds))


\* lines 106 and 110: the two guards of a cycle
EnoughData_buggy(audio_buffer_, min_samples) == SLen(audio_buffer_) >= SAMPLE_RATE
EnoughData(audio_buffer_, min_samples) == SLen(audio_buffer_) >= min_samples

LongEnough_buggy(start, end) == end - start > 0
LongEnough(start, end) == end - start > SAMPLE_RATE

\* line 134: audio_buffer[MIN_SAMPLES - SAMPLE_RATE:]
KeepContext_buggy(audio_buffer_, min_samples) == audio_buffer_
\* only the last MIN_SAMPLES - SAMPLE_RATE samples
KeepContext_tail(audio_buffer_, min_samples) ==
    Drop(audio_buffer_, SLen(audio_buffer_) - (min_samples - SAMPLE_RATE))
KeepContext(audio_buffer_, min_samples) == Drop(audio_buffer_, min_samples - SAMPLE_RATE)

\* ---------------------------------------------------------------- inputs
\* The buffers the capture callback is handed, CHUNK_SIZE float32 samples
\* each, named by their content; frombuffer gives the samples.
FrameKinds == {"silent", "burst"}
Silent == <<[a |-> 0, n |-> CHUNK_SIZE]>>
Burst == <<[a |-> 0, n |-> 16384], [a |-> -2, n |-> 1500], [a |-> 0, n |-> CHUNK_SIZE - 17884]>>


\* Buffers of other lengths, which audio_callback (lines 48-50) takes as well:
\* half a chunk of silence, half a chunk that begins with the burst, and a
\* chunk that begins with the burst
SilentHalf == <<[a |-> 0, n |-> 16384]>>
BurstHalf == <<[a |-> -2, n |-> 1500], [a |-> 0, n |-> 16384 - 1500]>>
BurstSilent ==
    <<[a |-> -2, n |-> 1500], [a |-> 0, n |-> CHUNK_SIZE - 1500]>>
ChunkKinds == FrameKinds \cup {"silent_half", "burst_half", "burst_silent"}

\* line 102: np.frombuffer(data, dtype=np.float32)
frombuffer(data) ==
    IF data = "silent" THEN Silent
    ELSE IF data = "silent_half" THEN SilentHalf
    ELSE IF data = "burst_half" THEN BurstHalf
    ELSE IF data = "burst_silent" THEN BurstSilent
    ELSE Burst

\* the samples of a sequence of frames
RECURSIVE Samples(_)
Samples(frames) ==
    IF frames = <<>> THEN <<>>
    ELSE Cat(Samples(SubSeq(frames, 1, Len(frames) - 1)), frombuffer(frames[Len(frames)]))

\* PyAudio input devices: the device index, whether the device name contains
\* 'CABLE Output', whether it contains 'Virtual Cable'
Mic == [id |-> 1, cable |-> FALSE, named_virtual |-> FALSE]
CableA == [id |-> 2, cable |-> FALSE, named_virtual |-> TRUE]
Cable == [id |-> 3, cable |-> TRUE, named_virtual |-> TRUE]
DeviceLists == {<<>>, <<Mic>>, <<Mic, Cable>>}

\* lines 34-37, 223: "Virtual Cable" in the item text, which is the device
\* name followed by " (Virtual Cable)" for a 'CABLE Output' device and by
\* " (Microphone)" for any other
ItemIsVirtualCable(dev) == dev.cable \/ dev.named_virtual

BufferChoices == {5}

\* arguments for set_buffer_size called by any caller
SizeArgs == {-1, 4, 5, 17, 30, 31}

\* the texts model.transcribe returns, as code points
\* 'hello'
T_hello ==
    <<104, 101, 108, 108, 111>>
\* 'hello ther'
T_hello_ther ==
    <<104, 101, 108, 108, 111, 32, 116, 104, 101, 114>>
\* 'hello there'
T_hello_there ==
    <<104, 101, 108, 108, 111, 32, 116, 104, 101, 114, 101>>
\* 'HELLO THERE'
T_HELLO_THERE ==
    <<72, 69, 76, 76, 79, 32, 84, 72, 69, 82, 69>>
\* ' hello there\r\n'
T_hello_there_padded ==
    <<32, 104, 101, 108, 108, 111, 32, 116, 104, 101, 114, 101, 13, 10>>
\* 'hello there, how are you'
T_how_are_you ==
    <<104, 101, 108, 108, 111, 32, 116, 104, 101, 114, 101, 44, 32, 104, 111, 119, 32, 97, 114, 101, 32, 121, 111, 117>>
\* 'lo there, how'
T_lo_there_how ==
    <<108, 111, 32, 116, 104, 101, 114, 101, 44, 32, 104, 111, 119>>
\* 'Good morning all'
T_Good_morning_all ==
    <<71, 111, 111, 100, 32, 109, 111, 114, 110, 105, 110, 103, 32, 97, 108, 108>>
\* '\xa0GOOD MORNING ALL\x0c'
T_GOOD_MORNING_ALL ==
    <<160, 71, 79, 79, 68, 32, 77, 79, 82, 78, 73, 78, 71, 32, 65, 76, 76, 12>>
\* '\u03b1\u03b2\u03b3\u03b4\u03b5\u03b6\u03b7\u03b8\u03b9\u03ba\u03bb'
T_alpha_lambda ==
    <<945, 946, 947, 948, 949, 950, 951, 952, 953, 954, 955>>
\* '\u0391\u0392\u0393\u0394\u0395\u0396\u0397\u0398\u0399\u039a\u039b'
T_ALPHA_LAMBDA ==
    <<913, 914, 915, 916, 917, 918, 919, 920, 921, 922, 923>>
\* '\u039f\u0394\u039f\u03a3 \u039f\u0394\u03a5\u03a3\u03a3\u0395\u0391\u03a3'
T_ODOS_ODYSSEAS ==
    <<927, 916, 927, 931, 32, 927, 916, 933, 931, 931, 917, 913, 931>>
\* '\u03bf\u03b4\u03bf\u03c2 \u03bf\u03b4\u03c5\u03c3\u03c3\u03b5\u03b1\u03c2'
T_odos_odysseas ==
    <<959, 948, 959, 962, 32, 959, 948, 965, 963, 963, 949, 945, 962>>
DedupTexts == {<<>>, T_hello, T_hello_ther, T_hello_there, T_HELLO_THERE,
               T_hello_there_padded, T_how_are_you, T_lo_there_how,
               T_Good_morning_all, T_GOOD_MORNING_ALL, T_alpha_lambda,
               T_ALPHA_LAMBDA, T_ODOS_ODYSSEAS, T_odos_odysseas}
InferTexts == {T_hello, T_hello_there_padded, T_HELLO_THERE}

\* ----------------------------------------------------------------- state
VARIABLES
    \* TranscriptionApp
    devices,                \* what get_available_devices returns
    combo_index,            \* device_combo.currentIndex()
    controls_enabled,       \* device_combo / buffer_spin enabled
    buffer_spin,            \* buffer_spin.value()
    is_transcribing,
    gpc,                    \* GUI thread: "ready", "waiting" inside QThread.wait()
    pending_errors,         \* queued error_signal deliveries to show_error
    \* TranscriptionThread fields
    running,
    selected_device_index,
    buffer_size_seconds,
    audio_queue,
    \* TranscriptionThread.run
    pc,                     \* position of the driver thread in run()
    stream,                 \* "none", "open", "active", "closed"
    audio_buffer,
    MIN_SAMPLES,
    last_transcription,
    region,                 \* <<start, end>> of the cycle being processed
    padded_audio,           \* the segment handed to model.transcribe
    \* observation
    starts,                 \* number of times the thread was started
    pushed,                 \* frames put on the queue this session, in order
    appended,               \* frames concatenated to the buffer this session
    emitted,                \* transcription_signal emissions this session
    errs,                   \* error_signal emissions this session
    inflight,               \* model.transcribe calls that have not returned
    offset,                 \* stream position of audio_buffer[0]
    infer_log,              \* stream positions <<from, to>> of the segments transcribed
    cycle,                  \* what the last `if len(audio_buffer) >= MIN_SAMPLES` did,
                            \* how many cycles of the session ran VAD (vads), and
                            \* what buffer_size_seconds was at the time (seconds)
    cands,                  \* the transcripts the dedup filter was given this session
    cfg_errors,             \* runs that ended at line 77, over all sessions
    size_calls,             \* the arguments set_buffer_size was called with, in order
    after_stop,             \* model.transcribe calls begun (calls) and transcripts
                            \* emitted (events) since stop() cleared the flag
    dedup,                  \* what the last dedup decision was
    \* the same stream fed again
    source,                 \* the sample stream the capture device delivers and the
                            \* function model.transcribe computes, when they are fixed
    earlier                 \* what the run before this one did on the same source

appVars == <<devices, combo_index, controls_enabled, buffer_spin, is_transcribing,
             gpc, pending_errors>>
fieldVars == <<running, selected_device_index, buffer_size_seconds, audio_queue>>
runVars == <<pc, stream, audio_buffer, MIN_SAMPLES, last_transcription, region,
             padded_audio>>
obsVars == <<starts, pushed, appended, emitted, errs, inflight, offset, infer_log,
             cycle, cands, cfg_errors, size_calls, after_stop, dedup>>
feedVars == <<source, earlier>>
vars == <<appVars, fieldVars, runVars, obsVars, feedVars>>

NoSegment == [num |-> <<>>, den |-> 1]
NoCycle == [buflen |-> 0, min |-> 0, vad |-> FALSE, start |-> 0, end |-> 0,
            inferred |-> FALSE, trimmed |-> FALSE, vads |-> 0, seconds |-> 0]
NoneSinceStop == [calls |-> 0, events |-> 0]
NoDedup == [cand |-> <<>>, prev |-> <<>>, accepted |-> FALSE]
NoSource == [stream |-> <<>>, infer |-> <<>>]
NoRun == [vads |-> -1, emitted |-> <<>>, first |-> 0]

\* populate_device_list: the first "Virtual Cable" entry if any, else the
\* first entry (QComboBox selects it when it is added), else -1
InitialComboIndex(devs) ==
    IF devs = <<>> THEN -1
    ELSE IF \E i \in 1 .. Len(devs) : ItemIsVirtualCable(devs[i])
         THEN SetMin({i \in 1 .. Len(devs) : ItemIsVirtualCable(devs[i])}) - 1
         ELSE 0

\* __init__ of both classes, but for the device list and the driver's position
InitFields ==
    /\ controls_enabled = TRUE
    /\ buffer_spin = DefaultBufferSeconds
    /\ is_transcribing = FALSE
    /\ gpc = "ready"
    /\ pending_errors = 0
    /\ running = FALSE
    /\ selected_device_index = None
    /\ buffer_size_seconds = DefaultBufferSeconds
    /\ audio_queue = <<>>
    /\ stream = "none"
    /\ MIN_SAMPLES = 0
    /\ last_transcription = <<>>
    /\ region = <<0, 0>>
    /\ padded_audio = NoSegment
    /\ starts = 0
    /\ pushed = <<>>
    /\ appended = <<>>
    /\ emitted = <<>>
    /\ errs = 0
    /\ inflight = 0
    /\ offset = 0
    /\ infer_log = <<>>
    /\ cycle = NoCycle
    /\ cands = <<>>
    /\ cfg_errors = 0
    /\ size_calls = <<>>
    /\ after_stop = NoneSinceStop
    /\ dedup = NoDedup
    /\ earlier = NoRun

Init ==
    /\ devices \in DeviceLists
    /\ source = NoSource
    /\ combo_index = InitialComboIndex(devices)
    /\ pc = "idle"
    /\ audio_buffer = <<>>
    /\ InitFields

\* ------------------------------------------------- TranscriptionThread.stop
\* a stop that ends the call in flight
stop_preemptive ==
    /\ running' = FALSE
    /\ after_stop' = IF running THEN NoneSinceStop ELSE after_stop
    /\ IF pc = "transcribe"
       THEN pc' = "finally" /\ inflight' = 0 /\ padded_audio' = NoSegment
       ELSE UNCHANGED <<pc, inflight, padded_audio>>

\* lines 146-147: stop() sets the flag and touches nothing else of the driver
stop ==
    /\ running' = FALSE
    /\ after_stop' = IF running THEN NoneSinceStop ELSE after_stop
    /\ UNCHANGED <<pc, inflight, padded_audio>>

\* lines 252-259: the handler's own state, stop(), then wait()
stop_transcription ==
    /\ is_transcribing' = FALSE
    /\ controls_enabled' = TRUE
    /\ stop
    /\ gpc' = "waiting"

\* ------------------------------------------------------ TranscriptionApp
\* toggle_transcription -> start_transcription
StartTranscription ==
    /\ gpc = "ready"
    /\ ~is_transcribing
    /\ starts < MaxStarts
    /\ IF combo_index = -1
       THEN \* show_error("Please select an input device") -> stop_transcription
            /\ stop_transcription
            /\ UNCHANGED <<stream, audio_buffer, MIN_SAMPLES, last_transcription, region,
                           starts, pushed, appended, emitted, errs, offset, infer_log,
                           cycle, cands, cfg_errors, size_calls, dedup>>
       ELSE /\ is_transcribing' = TRUE
            /\ controls_enabled' = FALSE
            /\ UNCHANGED <<running, gpc>>
            /\ IF pc = "idle"
               THEN \* QThread.start(): run() begins in the driver thread
                    /\ pc' = "begin"
                    /\ stream' = "none"
                    /\ starts' = starts + 1
                    /\ pushed' = <<>>
                    /\ appended' = <<>>
                    /\ emitted' = <<>>
                    /\ errs' = 0
                    /\ offset' = 0
                    /\ infer_log' = <<>>
                    /\ cycle' = NoCycle
                    /\ cands' = <<>>
                    /\ dedup' = NoDedup
                    /\ after_stop' = NoneSinceStop
                    /\ UNCHANGED <<audio_buffer, MIN_SAMPLES, last_transcription,
                                   region, padded_audio, inflight, cfg_errors, size_calls>>
               ELSE UNCHANGED <<runVars, obsVars>>
    /\ UNCHANGED <<devices, feedVars, combo_index, buffer_spin, pending_errors,
                   selected_device_index, buffer_size_seconds, audio_queue>>

\* toggle_transcription -> stop_transcription
StopTranscription ==
    /\ gpc = "ready"
    /\ is_transcribing
    /\ stop_transcription
    /\ UNCHANGED <<devices, feedVars, combo_index, buffer_spin, pending_errors,
                   selected_device_index, buffer_size_seconds, audio_queue,
                   stream, audio_buffer, MIN_SAMPLES, last_transcription, region,
                   starts, pushed, appended, emitted, errs, offset, infer_log,
                   cycle, cands, cfg_errors, size_calls, dedup>>

\* show_error, delivered for an error_signal emitted by the driver thread
ShowError ==
    /\ gpc = "ready"
    /\ pending_errors > 0
    /\ pending_errors' = pending_errors - 1
    /\ stop_transcription
    /\ UNCHANGED <<devices, feedVars, combo_index, buffer_spin,
                   selected_device_index, buffer_size_seconds, audio_queue,
                   stream, audio_buffer, MIN_SAMPLES, last_transcription, region,
                   starts, pushed, appended, emitted, errs, offset, infer_log,
                   cycle, cands, cfg_errors, size_calls, dedup>>

\* lines 271-273: closeEvent calls stop_transcription whatever is_transcribing
\* is; event.accept() changes no field of the application
CloseEvent ==
    /\ gpc = "ready"
    /\ stop_transcription
    /\ UNCHANGED <<devices, feedVars, combo_index, buffer_spin, pending_errors,
                   selected_device_index, buffer_size_seconds, audio_queue,
                   stream, audio_buffer, MIN_SAMPLES, last_transcription, region,
                   starts, pushed, appended, emitted, errs, offset, infer_log,
                   cycle, cands, cfg_errors, size_calls, dedup>>

\* QThread.wait() returns once run() has returned
WaitReturn ==
    /\ gpc = "waiting"
    /\ pc = "idle"
    /\ gpc' = "ready"
    /\ UNCHANGED <<devices, feedVars, combo_index, controls_enabled, buffer_spin,
                   is_transcribing, pending_errors, fieldVars, runVars, obsVars>>

\* on_device_changed(index) -> set_device
OnDeviceChanged(index) ==
    /\ gpc = "ready"
    /\ controls_enabled
    /\ index # combo_index
    /\ combo_index' = index
    /\ IF index >= 0 /\ index < Len(devices)
       THEN selected_device_index' = devices[index + 1].id
       ELSE UNCHANGED selected_device_index
    /\ UNCHANGED <<devices, feedVars, controls_enabled, buffer_spin, is_transcribing, gpc,
                   pending_errors, running, buffer_size_seconds, audio_queue,
                   runVars, obsVars>>

\* on_buffer_size_changed(value) -> set_buffer_size
OnBufferSizeChanged(value) ==
    /\ gpc = "ready"
    /\ controls_enabled
    /\ value # buffer_spin
    /\ buffer_spin' = value
    /\ buffer_size_seconds' = set_buffer_size(value)
    /\ size_calls' = Append(size_calls, value)
    /\ UNCHANGED <<devices, feedVars, combo_index, controls_enabled, is_transcribing, gpc,
                   pending_errors, running, selected_device_index, audio_queue,
                   runVars, starts, pushed, appended, emitted, errs, inflight,
                   offset, infer_log, cycle, cands, cfg_errors, after_stop, dedup>>

\* ------------------------------------------- TranscriptionThread.audio_callback
AudioCallback(in_data) ==
    /\ stream = "active"
    /\ Len(pushed) < MaxFrames
    /\ audio_queue' = Append(audio_queue, in_data)
    /\ pushed' = Append(pushed, in_data)
    /\ UNCHANGED <<appVars, feedVars, running, selected_device_index, buffer_size_seconds,
                   runVars, starts, appended, emitted, errs, inflight, offset,
                   infer_log, cycle, cands, cfg_errors, size_calls, after_stop, dedup>>


\* ---------------------------------------------------- TranscriptionThread.run
\* queue.Queue.get(): the oldest item and the rest
QueueGet_buggy(q) == <<q[Len(q)], SubSeq(q, 1, Len(q) - 1)>>
QueueGet(q) == <<Head(q), Tail(q)>>

\* line 75
NoDevice_buggy(device_index) == FALSE
NoDevice(device_index) == device_index = None

\* lines 75-77: no device selected
RunNoDevice ==
    /\ pc = "begin"
    /\ NoDevice(selected_device_index)
    /\ cfg_errors' = cfg_errors + 1
    /\ errs' = errs + 1
    /\ pending_errors' = pending_errors + 1
    /\ pc' = "idle"
    /\ UNCHANGED <<devices, feedVars, combo_index, controls_enabled, buffer_spin,
                   is_transcribing, gpc, fieldVars, stream, audio_buffer,
                   MIN_SAMPLES, last_transcription, region, padded_audio,
                   starts, pushed, appended, emitted, inflight, offset,
                   infer_log, cycle, cands, size_calls, after_stop, dedup>>

\* lines 80-90: p.open(...) and stream.start_stream() succeed
OpenStream ==
    /\ pc = "begin"
    /\ ~NoDevice(selected_device_index)
    /\ stream' = "active"
    /\ pc' = "setrun"
    /\ UNCHANGED <<appVars, feedVars, fieldVars, audio_buffer, MIN_SAMPLES,
                   last_transcription, region, padded_audio, obsVars>>

\* lines 80-88 / 138-139: p.open raises, `stream` is never bound
OpenFails ==
    /\ pc = "begin"
    /\ ~NoDevice(selected_device_index)
    /\ errs' = errs + 1
    /\ pending_errors' = pending_errors + 1
    /\ pc' = "finally"
    /\ UNCHANGED <<devices, feedVars, combo_index, controls_enabled, buffer_spin,
                   is_transcribing, gpc, fieldVars, stream, audio_buffer,
                   MIN_SAMPLES, last_transcription, region, padded_audio,
                   starts, pushed, appended, emitted, inflight, offset,
                   infer_log, cycle, cands, cfg_errors, size_calls, after_stop, dedup>>

\* line 90 / 138-139: stream.start_stream raises, `stream` is bound
StartStreamFails ==
    /\ pc = "begin"
    /\ ~NoDevice(selected_device_index)
    /\ stream' = "open"
    /\ errs' = errs + 1
    /\ pending_errors' = pending_errors + 1
    /\ pc' = "finally"
    /\ UNCHANGED <<devices, feedVars, combo_index, controls_enabled, buffer_spin,
                   is_transcribing, gpc, fieldVars, audio_buffer,
                   MIN_SAMPLES, last_transcription, region, padded_audio,
                   starts, pushed, appended, emitted, inflight, offset,
                   infer_log, cycle, cands, cfg_errors, size_calls, after_stop, dedup>>

\* lines 91-96
SetRunning ==
    /\ pc = "setrun"
    /\ running' = TRUE
    /\ audio_buffer' = <<>>
    /\ MIN_SAMPLES' = SAMPLE_RATE * buffer_size_seconds
    /\ last_transcription' = <<>>
    /\ pc' = "loop"
    /\ UNCHANGED <<appVars, feedVars, selected_device_index, buffer_size_seconds, audio_queue,
                   stream, region, padded_audio, obsVars>>

\* the threshold computed anew at the top of every cycle
LoopTest_rereads ==
    /\ pc = "loop"
    /\ pc' = IF running THEN "drain" ELSE "finally"
    /\ MIN_SAMPLES' = SAMPLE_RATE * buffer_size_seconds
    /\ UNCHANGED <<appVars, feedVars, fieldVars, stream, audio_buffer,
                   last_transcription, region, padded_audio, obsVars>>

\* the loop goes on while frames are queued
LoopTest_drains_first ==
    /\ pc = "loop"
    /\ pc' = IF running \/ audio_queue # <<>> THEN "drain" ELSE "finally"
    /\ UNCHANGED <<appVars, feedVars, fieldVars, stream, audio_buffer, MIN_SAMPLES,
                   last_transcription, region, padded_audio, obsVars>>

\* line 98: while self.running
LoopTest ==
    /\ pc = "loop"
    /\ pc' = IF running THEN "drain" ELSE "finally"
    /\ UNCHANGED <<appVars, feedVars, fieldVars, stream, audio_buffer, MIN_SAMPLES,
                   last_transcription, region, padded_audio, obsVars>>

\* lines 100-103: one iteration of the inner loop
DrainOne ==
    /\ pc = "drain"
    /\ audio_queue # <<>>
    /\ LET got == QueueGet(audio_queue)
       IN  /\ audio_queue' = got[2]
           /\ audio_buffer' = Cat(audio_buffer, frombuffer(got[1]))
           /\ appended' = Append(appended, got[1])
    /\ UNCHANGED <<appVars, feedVars, running, selected_device_index, buffer_size_seconds,
                   pc, stream, MIN_SAMPLES, last_transcription, region, padded_audio,
                   starts, pushed, emitted, errs, inflight, offset, infer_log,
                   cycle, cands, cfg_errors, size_calls, after_stop, dedup>>

\* lines 100, 106-123, 134-136: the queue is seen empty, the inner loop ends,
\* and the cycle runs up to the call of model.transcribe, or to its end when
\* nothing is transcribed (it works on the thread's locals only)
Process ==
    /\ pc = "drain"
    /\ audio_queue = <<>>
    /\ IF EnoughData(audio_buffer, MIN_SAMPLES)
       THEN \E se \in {find_speech_boundaries(Take(audio_buffer, MIN_SAMPLES))} :
            LET start == se[1]
                end == se[2]
                speech_segment == Slice(audio_buffer, start, end)
                rec == [buflen |-> SLen(audio_buffer), min |-> MIN_SAMPLES,
                        vad |-> TRUE, start |-> start, end |-> end,
                        inferred |-> FALSE, trimmed |-> FALSE,
                        vads |-> cycle.vads + 1,
                        seconds |-> buffer_size_seconds]
            IN  /\ region' = se
                /\ IF LongEnough(start, end)
                   THEN /\ padded_audio' = np_pad(normalize(speech_segment), SAMPLE_RATE)
                        /\ inflight' = inflight + 1
                        /\ after_stop' = IF running THEN after_stop
                                         ELSE [after_stop EXCEPT !.calls = @ + 1]
                        /\ infer_log' = Append(infer_log, <<offset + start, offset + end>>)
                        /\ cycle' = [rec EXCEPT !.inferred = TRUE]
                        /\ pc' = "transcribe"
                        /\ UNCHANGED <<audio_buffer, offset>>
                   ELSE /\ audio_buffer' = KeepContext(audio_buffer, MIN_SAMPLES)
                        /\ offset' = offset + (SLen(audio_buffer) - SLen(audio_buffer'))
                        /\ cycle' = [rec EXCEPT !.trimmed = TRUE]
                        /\ pc' = "loop"
                        /\ UNCHANGED <<padded_audio, inflight, infer_log, after_stop>>
       ELSE /\ cycle' = [buflen |-> SLen(audio_buffer), min |-> MIN_SAMPLES,
                         vad |-> FALSE, start |-> 0, end |-> 0,
                         inferred |-> FALSE, trimmed |-> FALSE,
                         vads |-> cycle.vads,
                         seconds |-> buffer_size_seconds]
            /\ pc' = "loop"
            /\ UNCHANGED <<region, padded_audio, inflight, infer_log, audio_buffer,
                           offset, after_stop>>
    /\ UNCHANGED <<appVars, feedVars, fieldVars, stream, MIN_SAMPLES, last_transcription,
                   starts, pushed, appended, emitted, errs, cands, cfg_errors, size_calls, dedup>>

\* lines 124-131: strip the text, filter it, emit it
DedupStep(text) ==
    LET transcript == Strip(text)
        accepted == DedupAccepts(transcript, last_transcription)
    IN  /\ dedup' = [cand |-> transcript, prev |-> last_transcription,
                     accepted |-> accepted]
        /\ cands' = Append(cands, transcript)
        /\ emitted' = IF accepted THEN Append(emitted, transcript) ELSE emitted
        /\ last_transcription' = IF accepted THEN transcript ELSE last_transcription

\* lines 123-136: model.transcribe returns `text`
TranscribeReturns(text) ==
    /\ pc = "transcribe"
    /\ DedupStep(text)
    /\ after_stop' = IF ~running /\ Len(emitted') > Len(emitted)
                     THEN [after_stop EXCEPT !.events = @ + 1]
                     ELSE after_stop
    /\ inflight' = inflight - 1
    /\ padded_audio' = NoSegment
    /\ audio_buffer' = KeepContext(audio_buffer, MIN_SAMPLES)
    /\ offset' = offset + (SLen(audio_buffer) - SLen(audio_buffer'))
    /\ cycle' = [cycle EXCEPT !.trimmed = TRUE]
    /\ pc' = "loop"
    /\ UNCHANGED <<appVars, feedVars, fieldVars, stream, MIN_SAMPLES, region,
                   starts, pushed, appended, errs, infer_log, cfg_errors, size_calls>>

\* lines 123, 138-139: model.transcribe raises
TranscribeFails ==
    /\ pc = "transcribe"
    /\ inflight' = inflight - 1
    /\ padded_audio' = NoSegment
    /\ errs' = errs + 1
    /\ pending_errors' = pending_errors + 1
    /\ pc' = "finally"
    /\ UNCHANGED <<devices, feedVars, combo_index, controls_enabled, buffer_spin,
                   is_transcribing, gpc, fieldVars, stream, audio_buffer,
                   MIN_SAMPLES, last_transcription, region,
                   starts, pushed, appended, emitted, offset, infer_log, cycle,
                   cands, cfg_errors, size_calls, after_stop, dedup>>

\* line 144: self.audio_queue.queue.clear()
ClearQueue_buggy(q) == q
ClearQueue(q) == <<>>

\* lines 140-144, and run() returns
Finally ==
    /\ pc = "finally"
    /\ stream' = IF stream = "none" THEN "none" ELSE "closed"
    /\ audio_queue' = ClearQueue(audio_queue)
    \* run() returns: its locals are gone
    /\ audio_buffer' = <<>>
    /\ MIN_SAMPLES' = 0
    /\ last_transcription' = <<>>
    /\ region' = <<0, 0>>
    /\ pc' = "idle"
    /\ UNCHANGED <<appVars, feedVars, running, selected_device_index, buffer_size_seconds,
                   padded_audio, obsVars>>

App ==
    \/ StartTranscription
    \/ StopTranscription
    \/ ShowError
    \/ CloseEvent
    \/ WaitReturn
    \/ \E index \in 0 .. (Len(devices) - 1) : OnDeviceChanged(index)
    \/ \E value \in BufferChoices : OnBufferSizeChanged(value)

Capture == \E in_data \in FrameKinds : AudioCallback(in_data)

Driver ==
    \/ RunNoDevice
    \/ OpenStream
    \/ OpenFails
    \/ StartStreamFails
    \/ SetRunning
    \/ LoopTest
    \/ DrainOne
    \/ Process
    \/ \E text \in InferTexts : TranscribeReturns(text)
    \/ TranscribeFails
    \/ Finally

Next == App \/ Capture \/ Driver

Spec == Init /\ [][Next]_vars

\* The driver is a thread of its own: the operating system keeps scheduling
\* it while it has a step to take.  Nothing is assumed of the user or of the
\* capture callback.
SpecLive == Init /\ [][Next]_vars /\ WF_vars(Driver)

\* ------------------------------------------- find_speech_boundaries alone
\* n samples: silence, a burst, silence, a second burst, silence
VadArray(n, lead, a1, l1, gap, a2, l2) ==
    Take(Cat(Cat(Cat(Cat(Run(0, lead), Run(a1, l1)), Run(0, gap)), Run(a2, l2)), Run(0, n)), n)

\* 5 s of loud audio, 78 windows.  The energies add up to one quantum less
\* than 2 * 78 times the energy of window 0, a number above 2^24 that float32
\* does not hold: the sum is rounded up, the threshold is the energy of
\* window 0 and window 0 is not above it.
LoudEdge ==
    <<[a |-> 106, n |-> 30], [a |-> 105, n |-> 994], [a |-> 212, n |-> 33321],
      [a |-> 211, n |-> 45527], [a |-> 0, n |-> 128]>>

\* 5 s with samples at full scale, 32768 quanta.  Window 1 adds up to an odd
\* number above 2^24 and its energy is rounded up; with that the threshold
\* is the energy of window 0.
FullScaleEdge ==
    <<[a |-> 32768, n |-> 341], [a |-> 0, n |-> 683], [a |-> 32768, n |-> 1022],
      [a |-> 32767, n |-> 1], [a |-> 0, n |-> 1], [a |-> 32768, n |-> 51832],
      [a |-> 0, n |-> 26120]>>

VadInputs ==
    {VadArray(SAMPLE_RATE * b, lead, a1, l1, gap, a2, l2) :
        b \in MinBufferSeconds .. MaxVadSeconds,
        lead \in {0, 700, 20480, 79900},
        a1 \in {0, 1, 3}, l1 \in {300, 1024, 17000},
        gap \in {0, 30000}, a2 \in {0, -3}, l2 \in {2000, 60000}}
    \cup {LoudEdge, FullScaleEdge}

InitVAD ==
    /\ devices = <<>>
    /\ source = NoSource
    /\ combo_index = -1
    /\ pc = "vad_in"
    /\ audio_buffer \in VadInputs
    /\ InitFields

\* line 108, on an array of MIN_SAMPLES samples
ApplyVAD ==
    /\ pc = "vad_in"
    /\ region' = find_speech_boundaries(audio_buffer)
    /\ pc' = "vad_out"
    /\ UNCHANGED <<appVars, feedVars, fieldVars, stream, audio_buffer, MIN_SAMPLES,
                   last_transcription, padded_audio, obsVars>>

SpecVAD == InitVAD /\ [][ApplyVAD]_vars

\* --------------------------------------------------- the dedup filter alone
InitDedup ==
    /\ devices = <<>>
    /\ source = NoSource
    /\ combo_index = -1
    /\ pc = "dedup"
    /\ audio_buffer = <<>>
    /\ InitFields

\* lines 124-131, for a sequence of inference results
ApplyDedup(text) ==
    /\ pc = "dedup"
    /\ Len(cands) < MaxDedup
    /\ DedupStep(text)
    /\ UNCHANGED <<appVars, feedVars, fieldVars, pc, stream, audio_buffer, MIN_SAMPLES, region,
                   padded_audio, starts, pushed, appended, errs, inflight, offset,
                   infer_log, cycle, cfg_errors, size_calls, after_stop>>

SpecDedup == InitDedup /\ [][\E text \in DedupTexts : ApplyDedup(text)]_vars

\* ------------------------------ TranscriptionThread driven by any caller
\* The public methods of the thread object called directly: set_device,
\* set_buffer_size with any integer and at any time, start, stop.  No frame
\* arrives, so every cycle finds the buffer below the threshold.
InitConfig ==
    /\ devices \in {<<Mic>>, <<Mic, CableA>>}
    /\ source = NoSource
    /\ combo_index = InitialComboIndex(devices)
    /\ pc = "idle"
    /\ audio_buffer = <<>>
    /\ InitFields

\* lines 42-43
CallSetDevice(device_index) ==
    /\ selected_device_index # device_index
    /\ selected_device_index' = device_index
    /\ UNCHANGED <<appVars, feedVars, running, buffer_size_seconds, audio_queue, runVars, obsVars>>

\* lines 45-46
CallSetBufferSize(seconds) ==
    /\ Len(size_calls) < MaxSizeCalls
    /\ buffer_size_seconds' = set_buffer_size(seconds)
    /\ size_calls' = Append(size_calls, seconds)
    /\ UNCHANGED <<appVars, feedVars, running, selected_device_index, audio_queue, runVars,
                   starts, pushed, appended, emitted, errs, inflight, offset,
                   infer_log, cycle, cands, cfg_errors, after_stop, dedup>>

\* QThread.start(): run() begins unless the thread is running
CallStart ==
    /\ pc = "idle"
    /\ starts < MaxStarts
    /\ pc' = "begin"
    /\ stream' = "none"
    /\ starts' = starts + 1
    /\ errs' = 0
    /\ cycle' = NoCycle
    /\ after_stop' = NoneSinceStop
    /\ UNCHANGED <<appVars, feedVars, fieldVars, audio_buffer, MIN_SAMPLES, last_transcription,
                   region, padded_audio, pushed, appended, emitted, inflight, offset,
                   infer_log, cands, cfg_errors, size_calls, dedup>>

\* lines 146-147
CallStop ==
    /\ running
    /\ stop
    /\ UNCHANGED <<appVars, feedVars, selected_device_index, buffer_size_seconds, audio_queue,
                   stream, audio_buffer, MIN_SAMPLES, last_transcription, region,
                   starts, pushed, appended, emitted, errs, offset, infer_log,
                   cycle, cands, cfg_errors, size_calls, dedup>>

NextConfig ==
    \/ CallSetDevice(Mic.id)
    \/ \E seconds \in SizeArgs : CallSetBufferSize(seconds)
    \/ CallStart
    \/ CallStop
    \/ RunNoDevice
    \/ OpenStream
    \/ SetRunning
    \/ LoopTest
    \/ Process
    \/ Finally

SpecConfig == InitConfig /\ [][NextConfig]_vars

\* --------------------------------------- one sample stream, fed more than once
\* The thread object is run several times on one source: the capture device
\* delivers the same samples in every run, cut into buffers in any way and
\* at any moment, and model.transcribe is one function of its argument.
\* Nothing fails.  The runs are made at the 5 s setting, which is the only one
\* a stream of MaxFrames buffers can fill twice.

\* the sample streams: nine half chunks with two bursts in the first array
\* evaluated and none in the second, and five half chunks with one burst
SourceStreams ==
    {Samples(<<"burst_half", "silent_half", "silent_half", "burst_half", "silent_half",
               "silent_half", "silent_half", "silent_half", "silent_half">>),
     Samples(<<"silent_half", "burst_half", "silent_half", "silent_half", "silent_half">>)}

\* the texts the function returns
RunTexts == {T_hello_there_padded, T_how_are_you}

\* lines 108-120 on the array w: the segment handed to model.transcribe, in
\* a set, or no segment
SegmentOf(w) ==
    LET se == find_speech_boundaries(w)
    IN  IF LongEnough(se[1], se[2])
        THEN {np_pad(normalize(Slice(w, se[1], se[2])), SAMPLE_RATE)}
        ELSE {}

\* the segments cut from the arrays s[k*D : k*D + M], D = M - SAMPLE_RATE
SegmentsOf(s, M) ==
    UNION {SegmentOf(Slice(s, k * (M - SAMPLE_RATE), k * (M - SAMPLE_RATE) + M)) :
             k \in {j \in 0 .. (SLen(s) \div (M - SAMPLE_RATE)) :
                       j * (M - SAMPLE_RATE) + M <= SLen(s)}}

\* line 123: model.transcribe(padded_audio) for the function given by table,
\* which returns one text on every argument the table does not list
transcribe(table, segment) ==
    IF segment \in DOMAIN table THEN table[segment] ELSE T_hello

\* the length of the first buffer of a run, 0 when there was none
FirstLength(frames) == IF frames = <<>> THEN 0 ELSE SLen(frombuffer(frames[1]))

InitRuns ==
    /\ devices = <<Mic>>
    /\ combo_index = InitialComboIndex(devices)
    /\ pc = "idle"
    /\ audio_buffer = <<>>
    /\ InitFields
    /\ \E s \in SourceStreams :
         \E table \in [SegmentsOf(s, MinBufferSeconds * SAMPLE_RATE) -> RunTexts] :
            source = [stream |-> s, infer |-> table]

\* set_device and set_buffer_size(5), before the first run
ConfigureRuns ==
    /\ pc = "idle"
    /\ starts = 0
    /\ \/ CallSetDevice(Mic.id)
       \/ buffer_size_seconds # MinBufferSeconds /\ CallSetBufferSize(MinBufferSeconds)

\* QThread.start() once the thread is configured; what the run before did is
\* kept for comparison
StartRun ==
    /\ pc = "idle"
    /\ starts < MaxStarts
    /\ selected_device_index # None
    /\ buffer_size_seconds = MinBufferSeconds
    /\ earlier' = IF starts = 0 THEN NoRun
                  ELSE [vads |-> cycle.vads, emitted |-> emitted,
                        first |-> FirstLength(pushed)]
    /\ pc' = "begin"
    /\ stream' = "none"
    /\ starts' = starts + 1
    /\ pushed' = <<>>
    /\ appended' = <<>>
    /\ emitted' = <<>>
    /\ errs' = 0
    /\ offset' = 0
    /\ infer_log' = <<>>
    /\ cycle' = NoCycle
    /\ cands' = <<>>
    /\ dedup' = NoDedup
    /\ after_stop' = NoneSinceStop
    /\ UNCHANGED <<appVars, fieldVars, source, audio_buffer, MIN_SAMPLES,
                   last_transcription, region, padded_audio, inflight, cfg_errors,
                   size_calls>>

\* the device's next buffer: the samples of the source that follow the ones
\* delivered so far, in a buffer of any of the lengths
DeliverNext(in_data) ==
    /\ stream = "active"
    /\ \E fed \in {SLen(Samples(pushed))} :
         Slice(source.stream, fed, fed + SLen(frombuffer(in_data))) = frombuffer(in_data)
    /\ AudioCallback(in_data)

\* model.transcribe returns what the function gives for the segment
TranscribeComputes == TranscribeReturns(transcribe(source.infer, padded_audio))

NextRuns ==
    \/ ConfigureRuns
    \/ StartRun
    \/ CallStop
    \/ \E in_data \in ChunkKinds : DeliverNext(in_data)
    \/ OpenStream
    \/ SetRunning
    \/ LoopTest
    \/ DrainOne
    \/ Process
    \/ TranscribeComputes
    \/ Finally

SpecRuns == InitRuns /\ [][NextRuns]_vars

\* ===================================================================== claims
IsPrefix(p, q) == Len(p) <= Len(q) /\ SubSeq(q, 1, Len(p)) = p

\* the filter as the contract words it
ContractAccepts(c, L) ==
    Len(c) > MIN_PHRASE_LENGTH /\ ~IsSubstring(Lower(c), Lower(L))

\* <<events, last accepted>> after the candidates cs, by the contract
RECURSIVE ContractReplay(_)
ContractReplay(cs) ==
    IF cs = <<>> THEN <<<<>>, <<>>>>
    ELSE LET before == ContractReplay(SubSeq(cs, 1, Len(cs) - 1))
             c == cs[Len(cs)]
         IN  IF ContractAccepts(c, before[2])
             THEN <<Append(before[1], c), c>>
             ELSE before

\* C1: a candidate c is emitted iff len(c) > MIN_PHRASE_LENGTH and lower(c) is
\* not a substring of lower(L), L the last accepted text (initially empty); on
\* emit L becomes c, on suppression L and the events are unchanged.  So a
\* candidate equal to L or of length <= 10 is suppressed, and "hello there",
\* "hello", "hello there, how are you" gives accept, suppress, accept.
C1_DedupFilter ==
    /\ emitted = ContractReplay(cands)[1]
    /\ last_transcription = ContractReplay(cands)[2]
    /\ cands # <<>> =>
        /\ dedup.cand = cands[Len(cands)]
        /\ dedup.accepted <=> ContractAccepts(dedup.cand, dedup.prev)
        /\ dedup.accepted => last_transcription = dedup.cand
        /\ ~dedup.accepted => last_transcription = dedup.prev
        /\ dedup.cand = dedup.prev => ~dedup.accepted
        /\ Len(dedup.cand) <= MIN_PHRASE_LENGTH => ~dedup.accepted
    /\ cands = <<T_hello_there, T_hello, T_how_are_you>>
         => emitted = <<T_hello_there, T_how_are_you>>

C1_Witness ==
    /\ pc = "dedup"
    /\ cands = <<T_hello_there, T_hello, T_how_are_you>>
    /\ emitted = <<T_hello_there, T_how_are_you>>
    /\ last_transcription = T_how_are_you

\* C2: at most one model.transcribe call is in flight at any time, over any
\* starts, stops, errors and restarts, and the segments transcribed in a
\* session lie in the order of their audio.
C2_OneInferenceInOrder ==
    /\ inflight \in {0, 1}
    /\ inflight = 1 <=> pc = "transcribe"
    /\ \A i \in 1 .. (Len(infer_log) - 1) :
          /\ infer_log[i][1] < infer_log[i + 1][1]
          /\ infer_log[i][2] < infer_log[i + 1][2]

C2_Witness ==
    /\ starts = 2
    /\ Len(infer_log) = 2
    /\ pc = "transcribe"
    /\ inflight = 1

\* C3 as stated: when the loop exits, every frame pushed so far has been
\* appended to the sample buffer.
C3_AllPushedAppended ==
    [][(pc \in {"loop", "transcribe"} /\ pc' = "finally") => appended = pushed]_vars

\* C3 amended: the frames appended are at all times a prefix of the frames
\* pushed, in arrival order, each once; until the queue is cleared the frames
\* pushed are those appended followed by those queued; the buffer holds the
\* appended samples past the trimmed ones.  Frames still queued when the loop
\* exits are never appended.
C3_HandOff ==
    /\ IsPrefix(appended, pushed)
    /\ pc \in {"begin", "setrun", "loop", "drain", "transcribe", "finally"}
         => pushed = appended \o audio_queue
    /\ pc \in {"loop", "drain", "transcribe", "finally"}
         => audio_buffer = Drop(Samples(appended), offset)

C3_Witness ==
    /\ pc = "idle"
    /\ Len(appended) >= 2
    /\ appended[1] # appended[2]
    /\ Len(pushed) > Len(appended)

\* C4: a stop issued while model.transcribe is in flight does not interrupt
\* it; the loop is left only after the call has returned, and the stream is
\* released and the queue cleared only after that.
C4_StopDuringInference ==
    /\ [](inflight = 1 => pc = "transcribe" /\ stream = "active")
    /\ [][(pc = "transcribe" /\ running /\ ~running')
            => /\ pc' = "transcribe"
               /\ inflight' = 1
               /\ padded_audio' = padded_audio
               /\ stream' = "active"
               /\ audio_queue' = audio_queue
               /\ emitted' = emitted]_vars
    /\ [][(pc = "transcribe" /\ pc' # "transcribe")
            => /\ inflight' = 0
               /\ pc' \in {"loop", "finally"}
               /\ stream' = "active"
               /\ IsPrefix(audio_queue, audio_queue')]_vars

C4_Witness ==
    /\ pc = "transcribe"
    /\ inflight = 1
    /\ ~running
    /\ gpc = "waiting"
    /\ stream = "active"

\* C5: an error raised in the running session ends it: one error_signal, no
\* further cycle, no transcript for the failed cycle, the stream stopped and
\* closed and the queue empty once run() has returned.
C5_ErrorEndsSession ==
    /\ [](errs >= 1 => errs = 1 /\ pc \in {"finally", "idle"} /\ inflight = 0)
    /\ []((errs = 1 /\ pc = "idle") => stream \in {"none", "closed"} /\ audio_queue = <<>>)
    /\ []((errs = 1 /\ pc = "idle" /\ cycle.inferred /\ ~cycle.trimmed) => stream = "closed")
    /\ [][(errs' = 1 /\ starts' = starts) => emitted' = emitted]_vars
    /\ [][(errs' = errs + 1 /\ pc # "begin") => pending_errors' = pending_errors + 1 /\ pc' = "finally"]_vars

C5_Witness ==
    /\ pc = "idle"
    /\ errs = 1
    /\ cycle.inferred
    /\ ~cycle.trimmed
    /\ stream = "closed"
    /\ Len(pushed) > Len(appended)
    /\ audio_queue = <<>>

\* C6: a start with no device selected emits one error and does nothing else:
\* running is not set, no stream is opened, no frame is drained, nothing is
\* transcribed; a later start with a device selected runs.
C6_NoDevice ==
    /\ [](selected_device_index = None =>
            /\ pc \in {"idle", "begin"}
            /\ ~running
            /\ stream = "none"
            /\ pushed = <<>> /\ appended = <<>> /\ infer_log = <<>> /\ inflight = 0
            /\ errs <= 1
            /\ (pc = "idle" /\ starts > 0) => errs = 1)
    /\ [][(pc = "begin" /\ selected_device_index = None /\ pc' # "begin")
            => /\ pc' = "idle"
               /\ errs' = 1
               /\ pending_errors' = pending_errors + 1
               /\ UNCHANGED <<running, stream, audio_queue, audio_buffer, emitted>>]_vars

C6_Witness ==
    /\ cfg_errors >= 1
    /\ selected_device_index # None
    /\ pc = "drain"
    /\ running
    /\ stream = "active"
    /\ Len(appended) >= 1

\* C7: a cycle that finds fewer than MIN_SAMPLES samples in the buffer runs no
\* VAD, calls no inference, emits nothing and leaves the buffer as it is; a
\* session whose input is shorter than the configured buffer emits nothing.
C7_BelowThreshold ==
    /\ [](pc \in {"loop", "drain", "transcribe"}
            => MIN_SAMPLES = SAMPLE_RATE * buffer_size_seconds)
    /\ []((pc \in {"loop", "drain", "transcribe", "finally"}
            /\ Len(pushed) * CHUNK_SIZE < MIN_SAMPLES)
            => emitted = <<>> /\ infer_log = <<>> /\ offset = 0 /\ ~cycle.vad)
    /\ [][(pc = "drain" /\ pc' # "drain" /\ SLen(audio_buffer) < MIN_SAMPLES)
            => /\ pc' = "loop"
               /\ ~cycle'.vad /\ ~cycle'.inferred /\ ~cycle'.trimmed
               /\ UNCHANGED <<audio_buffer, region, padded_audio, inflight,
                              infer_log, emitted, offset>>]_vars

C7_Witness ==
    /\ buffer_size_seconds = 10
    /\ pc = "loop"
    /\ cycle.buflen >= 8 * SAMPLE_RATE
    /\ cycle.buflen < cycle.min
    /\ ~cycle.vad
    /\ SLen(audio_buffer) = cycle.buflen
    /\ emitted = <<>>

\* no analysis window has energy above half the mean energy
NoSpeechWindow(audio_data) ==
    \A energy \in {Energy(audio_data)} :
        \A threshold \in {Threshold(energy)} :
            \A i \in DOMAIN energy : ~GreaterThan(energy[i], threshold)

\* C8: for an input of at least MIN_SAMPLES samples find_speech_boundaries
\* returns start, end with 0 <= start <= end <= len(input).
C8_RegionInBounds ==
    pc = "vad_out" =>
        /\ 0 <= region[1]
        /\ region[1] <= region[2]
        /\ region[2] <= SLen(audio_buffer)

C8_Witness ==
    /\ pc = "vad_out"
    /\ region[1] > 0
    /\ region[2] = NumWindows(SLen(audio_buffer)) * window_size
    /\ region[2] < SLen(audio_buffer)

\* C9: when no window has energy strictly above 0.5 * mean(energy),
\* find_speech_boundaries returns (0, len(input)).
C9_FailOpen ==
    (pc = "vad_out" /\ NoSpeechWindow(audio_buffer))
        => region = <<0, SLen(audio_buffer)>>

C9_Witness ==
    /\ pc = "vad_out"
    /\ NoSpeechWindow(audio_buffer)
    /\ PeakAbs(audio_buffer) > 0
    /\ region = <<0, SLen(audio_buffer)>>

\* C10: for the region VAD returns, inference is called on a segment iff
\* end - start is at least one second of samples; below that no segment is
\* produced.
C10_DurationPolicy ==
    /\ cycle.vad => (cycle.inferred <=> cycle.end - cycle.start >= SAMPLE_RATE)
    /\ (cycle.vad /\ cycle.end - cycle.start < SAMPLE_RATE) => pc # "transcribe"
    /\ pc = "transcribe" =>
          /\ cycle.vad /\ cycle.inferred
          /\ SLen(padded_audio.num) = (cycle.end - cycle.start) + SAMPLE_RATE

C10_Witness ==
    /\ Len(infer_log) >= 1
    /\ cycle.vad
    /\ ~cycle.inferred
    /\ cycle.end - cycle.start > 0
    /\ cycle.end - cycle.start < SAMPLE_RATE

\* C11: every segment handed to model.transcribe has length
\* (end - start) + SAMPLE_RATE; its first end - start samples are
\* audio_buffer[start:end], divided by one positive number when the peak of
\* that slice is not zero and as they are otherwise; its last SAMPLE_RATE
\* samples are zero.
C11_SegmentShape ==
    pc = "transcribe" =>
        LET start == region[1]
            end == region[2]
            slice == Slice(audio_buffer, start, end)
        IN  /\ SLen(padded_audio.num) = (end - start) + SAMPLE_RATE
            /\ Take(padded_audio.num, end - start) = slice
            /\ padded_audio.den > 0
            /\ PeakAbs(slice) = 0 => padded_audio.den = 1
            /\ Drop(padded_audio.num, end - start) = Run(0, SAMPLE_RATE)

C11_Witness ==
    /\ pc = "transcribe"
    /\ region[1] > 0
    /\ region[2] < MIN_SAMPLES
    /\ PeakAbs(Slice(audio_buffer, region[1], region[2])) = 2
    /\ padded_audio.den = 2
    /\ SLen(padded_audio.num) > 2 * SAMPLE_RATE

\* the runs on one source have read the same samples: what was delivered
\* so far is the beginning of the source, however it was cut into buffers
DeliveredFromSource ==
    Samples(pushed) = Take(source.stream, SLen(Samples(pushed)))

\* the transcript the function gives for the samples from .. to of the source
TranscriptOf(from, to) ==
    Strip(transcribe(source.infer,
                     np_pad(normalize(Slice(source.stream, from, to)), SAMPLE_RATE)))

\* C12: for one sample stream and one inference function, with the dedup
\* state reset at the start of each run, what a run emits depends on the
\* stream, the function and the number of arrays the run has evaluated, and
\* on nothing else: not on how the stream is cut into buffers, nor on how the
\* capture callback interleaves with the driver.  The k-th array given to
\* VAD (k = 0, 1, ...) is
\* stream[k*(MIN_SAMPLES - SAMPLE_RATE) : k*(MIN_SAMPLES - SAMPLE_RATE) + MIN_SAMPLES],
\* so consecutive arrays overlap by SAMPLE_RATE samples and none is skipped;
\* the segment transcribed is cut from the stream at the region VAD returned
\* for it; the candidates are the function's transcripts of those segments
\* and the transcripts emitted are the dedup filter's choice among them.
\* So two runs on the same source that have evaluated the same number of
\* arrays have emitted the same sequence of transcripts, and of two runs
\* stopped at different moments one has emitted a prefix of what the other
\* has.
C12_Determinism ==
    /\ [][(pc = "drain" /\ cycle'.vads = cycle.vads + 1) =>
            LET from == cycle.vads * (MIN_SAMPLES - SAMPLE_RATE)
            IN  /\ offset = from
                /\ SLen(Samples(pushed)) >= from + MIN_SAMPLES
                /\ Take(audio_buffer, MIN_SAMPLES)
                     = Slice(source.stream, from, from + MIN_SAMPLES)]_vars
    /\ [](DeliveredFromSource)
    /\ [](pc = "transcribe" =>
            LET from == (cycle.vads - 1) * (MIN_SAMPLES - SAMPLE_RATE)
                seg == Slice(source.stream, from + region[1], from + region[2])
            IN  /\ infer_log[Len(infer_log)] = <<from + region[1], from + region[2]>>
                /\ padded_audio = np_pad(normalize(seg), SAMPLE_RATE))
    /\ [](/\ Len(cands) = Len(infer_log) - inflight
          /\ \A i \in 1 .. Len(cands) :
                cands[i] = TranscriptOf(infer_log[i][1], infer_log[i][2]))
    /\ [](emitted = ContractReplay(cands)[1])
    /\ [](earlier.vads >= 0 =>
            /\ (cycle.vads = earlier.vads /\ pc # "transcribe")
                  => emitted = earlier.emitted
            /\ IsPrefix(emitted, earlier.emitted) \/ IsPrefix(earlier.emitted, emitted))

\* two runs on one source, cut into buffers differently (the first buffer of
\* one is half a chunk, of the other a chunk that straddles two of the first
\* run's), have both evaluated two arrays and emitted the same two transcripts
C12_Witness ==
    /\ starts = 2
    /\ pc = "loop"
    /\ earlier.vads = 2
    /\ cycle.vads = 2
    /\ earlier.first = 16384
    /\ pushed # <<>>
    /\ pushed[1] = "burst_silent"
    /\ Len(emitted) = 2
    /\ emitted = earlier.emitted

\* C13: after any sequence of set_buffer_size calls with any integer
\* arguments buffer_size_seconds is in 5 .. 30 and is the last argument when
\* that is in 5 .. 30; so MIN_SAMPLES of a session lies in
\* 5 * SAMPLE_RATE .. 30 * SAMPLE_RATE.
C13_BufferSizeClamped ==
    /\ buffer_size_seconds \in MinBufferSeconds .. MaxBufferSeconds
    /\ size_calls # <<>> =>
         LET last == size_calls[Len(size_calls)]
         IN  /\ last \in MinBufferSeconds .. MaxBufferSeconds => buffer_size_seconds = last
             /\ last < MinBufferSeconds => buffer_size_seconds = MinBufferSeconds
             /\ last > MaxBufferSeconds => buffer_size_seconds = MaxBufferSeconds
    /\ pc \in {"loop", "drain", "transcribe"} =>
         /\ MinBufferSeconds * SAMPLE_RATE <= MIN_SAMPLES
         /\ MIN_SAMPLES <= MaxBufferSeconds * SAMPLE_RATE

C13_Witness ==
    /\ size_calls = <<17, 31>>
    /\ buffer_size_seconds = MaxBufferSeconds
    /\ pc = "drain"
    /\ MIN_SAMPLES = MaxBufferSeconds * SAMPLE_RATE

\* C14: whenever stop is requested after a session with a selected device was
\* started, also before the driver has opened the stream, run() eventually
\* returns with the stream released and the queue cleared, so that wait()
\* can return.
C14_StopLiveness ==
    (gpc = "waiting" /\ selected_device_index # None /\ pc # "idle")
        ~> (pc = "idle" /\ stream \in {"none", "closed"} /\ audio_queue = <<>>)

\* a step that ends a cycle which found at least MIN_SAMPLES samples
EndsFullCycle == pc \in {"drain", "transcribe"} /\ pc' = "loop" /\ cycle'.trimmed

\* C15 as stated: at the end of every cycle in which the buffer held at least
\* MIN_SAMPLES samples the buffer holds exactly its MIN_SAMPLES - SAMPLE_RATE
\* most recent samples.
C15_RetainsTail ==
    [][EndsFullCycle =>
        /\ SLen(audio_buffer') = MIN_SAMPLES - SAMPLE_RATE
        /\ audio_buffer' = Drop(audio_buffer,
                                SLen(audio_buffer) - (MIN_SAMPLES - SAMPLE_RATE))]_vars

\* C15 amended: at the end of every such cycle, whether or not a segment was
\* transcribed or a transcript accepted, the buffer has lost its first
\* MIN_SAMPLES - SAMPLE_RATE samples and nothing else: it holds the last
\* SAMPLE_RATE samples of the array VAD was given, followed by every sample
\* that came after that array.
C15_DropsEvaluated ==
    [][EndsFullCycle =>
        /\ SLen(audio_buffer) >= MIN_SAMPLES
        /\ audio_buffer' = Drop(audio_buffer, MIN_SAMPLES - SAMPLE_RATE)
        /\ SLen(audio_buffer') = SLen(audio_buffer) - (MIN_SAMPLES - SAMPLE_RATE)
        /\ Take(audio_buffer', SAMPLE_RATE)
             = Slice(audio_buffer, MIN_SAMPLES - SAMPLE_RATE, MIN_SAMPLES)
        /\ Drop(audio_buffer', SAMPLE_RATE) = Drop(audio_buffer, MIN_SAMPLES)]_vars

C15_Witness ==
    /\ pc = "loop"
    /\ cycle.trimmed
    /\ ~cycle.inferred
    /\ cycle.buflen = 3 * CHUNK_SIZE
    /\ cycle.min = 5 * SAMPLE_RATE
    /\ SLen(audio_buffer) = 3 * CHUNK_SIZE - 4 * SAMPLE_RATE
    /\ PeakAbs(audio_buffer) > 0

\* C16 as stated: the driver reads buffer_size_seconds once per cycle: at the
\* start of every cycle the threshold the cycle uses is SAMPLE_RATE times the
\* buffer_size_seconds then in effect, so a set_buffer_size call between two
\* cycles of a running session changes the threshold of the next cycle.
C16_ThresholdPerCycle ==
    /\ [][(pc = "loop" /\ pc' = "drain")
            => MIN_SAMPLES' = SAMPLE_RATE * buffer_size_seconds]_vars
    /\ [][(pc = "drain" /\ pc' # "drain") => cycle'.min = MIN_SAMPLES]_vars

\* C16 amended: the driver reads buffer_size_seconds once per session, when
\* the loop is entered; every cycle of the session uses that threshold, and
\* a set_buffer_size call during the session changes buffer_size_seconds but
\* not the threshold, which changes at the next start.
C16_ThresholdPerSession ==
    /\ [][(pc = "setrun" /\ pc' = "loop")
            => MIN_SAMPLES' = SAMPLE_RATE * buffer_size_seconds]_vars
    /\ [][(pc \in {"loop", "drain", "transcribe"} /\ pc' \in {"loop", "drain", "transcribe"})
            => MIN_SAMPLES' = MIN_SAMPLES]_vars
    /\ [][(pc = "drain" /\ pc' # "drain") => cycle'.min = MIN_SAMPLES]_vars
    /\ [][(pc \in {"loop", "drain", "transcribe"} /\ size_calls' # size_calls)
            => /\ buffer_size_seconds' = set_buffer_size(size_calls'[Len(size_calls')])
               /\ MIN_SAMPLES' = MIN_SAMPLES]_vars

C16_Witness ==
    /\ pc = "loop"
    /\ running
    /\ size_calls = <<17, 31>>
    /\ buffer_size_seconds = MaxBufferSeconds
    /\ MIN_SAMPLES = 17 * SAMPLE_RATE
    /\ cycle.seconds = MaxBufferSeconds
    /\ cycle.min = 17 * SAMPLE_RATE

\* find_speech_boundaries as C17 words it: every complete window
\* [i*W, (i+1)*W), i < floor(n / W), takes part in the mean and in the mask
CompleteWindows(n) == n \div window_size

AllWindowsMask(audio_data) == MaskOver(audio_data, CompleteWindows(SLen(audio_data)))

AllWindowsBoundaries(audio_data) ==
    LET mask == AllWindowsMask(audio_data)
    IN  IF mask = {} THEN <<0, SLen(audio_data)>>
        ELSE <<Max(0, SetMin(mask) * window_size),
               Min(SLen(audio_data), (SetMax(mask) + 1) * window_size)>>

\* C17: for every input of length n the energies are computed over exactly
\* floor(n / 1024) consecutive windows, also when n is a multiple of 1024:
\* every complete window takes part in the mean and in the speech mask, and
\* the region returned is the one these windows give.
C17_AllCompleteWindows ==
    pc = "vad_out" =>
        /\ DOMAIN Energy(audio_buffer) = 0 .. (CompleteWindows(SLen(audio_buffer)) - 1)
        /\ region = AllWindowsBoundaries(audio_buffer)

\* when the length is not a multiple of 1024 the windows are the complete ones
VadWindowsUnlessMultiple ==
    (pc = "vad_out" /\ SLen(audio_buffer) % window_size # 0) =>
        /\ DOMAIN Energy(audio_buffer) = 0 .. (CompleteWindows(SLen(audio_buffer)) - 1)
        /\ region = AllWindowsBoundaries(audio_buffer)

\* when it is, the last complete window is left out
VadLastWindowDropped ==
    (pc = "vad_out" /\ SLen(audio_buffer) % window_size = 0) =>
        DOMAIN Energy(audio_buffer) = 0 .. (CompleteWindows(SLen(audio_buffer)) - 2)

\* speech that reaches into the last complete window of an 8 s input
VadLastWindowCase ==
    /\ pc = "vad_out"
    /\ audio_buffer = VadArray(8 * SAMPLE_RATE, 79900, 0, 17000, 30000, -3, 2000)
    /\ region = <<125952, 126976>>
    /\ AllWindowsBoundaries(audio_buffer) = <<125952, 128000>>

\* the sum of the energies is rounded: window 0 holds more than half the
\* exact mean and is not speech
VadRoundedMeanCase ==
    /\ pc = "vad_out"
    /\ audio_buffer = LoudEdge
    /\ WindowSum(audio_buffer, 0) = 107550
    /\ AbsSumTo(audio_buffer, 78 * window_size) = 2 * 78 * 107550 - 1
    /\ EnergyTotal(audio_buffer) = 2 * 78 * 107550
    /\ 0 \notin SpeechMask(audio_buffer)
    /\ region = <<1024, 79872>>

\* the sum over a window is rounded
VadRoundedSumCase ==
    /\ pc = "vad_out"
    /\ audio_buffer = FullScaleEdge
    /\ AbsSumTo(audio_buffer, 2048) - AbsSumTo(audio_buffer, 1024) = 33521663
    /\ WindowSum(audio_buffer, 1) = 33521664
    /\ 0 \notin SpeechMask(audio_buffer)
    /\ region = <<1024, 54272>>

\* C18: when at least one window is classified as speech the region starts
\* at the first speech window and ends at the end of the last one, capped at
\* the input length: silence windows between the two are inside the region,
\* silence windows before the first or after the last are outside it.
C18_RegionExtremes ==
    pc = "vad_out" =>
        \A mask \in {SpeechMask(audio_buffer)} :
            mask # {} =>
                /\ \E i \in mask :
                      /\ \A j \in mask : i <= j
                      /\ region[1] = i * window_size
                /\ \E k \in mask :
                      /\ \A j \in mask : j <= k
                      /\ region[2] = Min(SLen(audio_buffer), (k + 1) * window_size)
                /\ \A j \in 0 .. (NumWindows(SLen(audio_buffer)) - 1) :
                      j \notin mask =>
                        IF \E i, k \in mask : i < j /\ j < k
                        THEN region[1] <= j * window_size
                               /\ (j + 1) * window_size <= region[2]
                        ELSE (j + 1) * window_size <= region[1]
                               \/ region[2] <= j * window_size

\* silence before the region, a silence window inside it, silence after it
C18_Witness ==
    /\ pc = "vad_out"
    /\ region[1] > 0
    /\ region[2] < NumWindows(SLen(audio_buffer)) * window_size
    /\ \E mask \in {SpeechMask(audio_buffer)} :
          /\ (region[1] \div window_size) \in mask
          /\ ((region[2] \div window_size) - 1) \in mask
          /\ \E j \in (region[1] \div window_size) .. ((region[2] \div window_size) - 1) :
                j \notin mask

\* the candidate just filtered contains the last accepted text, case ignored
ContainsLast ==
    /\ cands # <<>>
    /\ dedup.prev # <<>>
    /\ IsSubstring(Lower(dedup.prev), Lower(dedup.cand))

\* C19 as stated: a candidate whose case-insensitive text contains the last
\* accepted text is suppressed: not emitted, last accepted text unchanged.
C19_LongerVariantSuppressed ==
    ContainsLast => ~dedup.accepted /\ last_transcription = dedup.prev

\* C19 amended: a candidate whose case-insensitive text contains the last
\* accepted text and is not equal to it is emitted and becomes the last
\* accepted text; it is suppressed only when the two are equal, case ignored.
\* What is suppressed is a candidate contained in the last accepted text.
C19_LongerVariantAccepted ==
    /\ (ContainsLast /\ Lower(dedup.cand) # Lower(dedup.prev)) =>
          /\ dedup.accepted
          /\ last_transcription = dedup.cand
          /\ emitted # <<>> /\ emitted[Len(emitted)] = dedup.cand
    /\ (ContainsLast /\ Lower(dedup.cand) = Lower(dedup.prev)) =>
          ~dedup.accepted /\ last_transcription = dedup.prev
    /\ (cands # <<>> /\ ~dedup.accepted /\ Len(dedup.cand) > MIN_PHRASE_LENGTH) =>
          IsSubstring(Lower(dedup.cand), Lower(dedup.prev))

C19_Witness ==
    /\ pc = "dedup"
    /\ dedup.prev = T_HELLO_THERE
    /\ dedup.cand = T_how_are_you
    /\ dedup.accepted
    /\ emitted = <<T_HELLO_THERE, T_how_are_you>>

\* C20: once stop() has cleared the running flag in a session whose loop is
\* running, at most one more model.transcribe call begins and at most one
\* more transcript is emitted before the loop is left; the flag stays clear
\* until then, and once the loop is left nothing is emitted until the thread
\* is started again.
C20_BoundedWorkAfterStop ==
    /\ [](after_stop.calls <= 1 /\ after_stop.events <= 1)
    /\ [][(~running /\ pc \in {"loop", "drain", "transcribe"}) => ~running']_vars
    /\ [][(~running /\ pc = "loop") => pc' \in {"loop", "finally"}]_vars
    /\ [][(pc \in {"finally", "idle"} /\ emitted' # emitted)
            => (pc = "idle" /\ pc' = "begin" /\ starts' = starts + 1)]_vars

\* stopped while a cycle had drained its frames: one call, one transcript
C20_Witness ==
    /\ pc = "idle"
    /\ ~running
    /\ after_stop.calls = 1
    /\ after_stop.events = 1
    /\ emitted # <<>>
    /\ stream = "closed"

\* the length of a region VAD returns is a multiple of window_size or the
\* whole input, never exactly one second
VadRegionNeverOneSecond ==
    pc = "vad_out" => region[2] - region[1] # SAMPLE_RATE

TypeOK ==
    /\ pc \in {"idle", "begin", "setrun", "loop", "drain", "transcribe", "finally",
              "vad_in", "vad_out", "dedup"}
    /\ stream \in {"none", "open", "active", "closed"}
    /\ gpc \in {"ready", "waiting"}
    /\ inflight \in 0 .. 1
    /\ after_stop.calls \in 0 .. 1
    /\ after_stop.events \in 0 .. 1
    /\ earlier.vads >= -1
    /\ source.stream = <<>> \/ source.stream \in SourceStreams

====
